---- MODULE Spec2Model ----
(***************************************************************************)
(* Peer connection lifecycle and matchmaking core of the chat hook         *)
(* useHumanChat (src/src/hooks/useHumanChat.ts, lines 1-718: the version   *)
(* with a main slot and a map of direct connections).                      *)
(*                                                                         *)
(* Every client of Peers runs one instance of the hook.  A handler of the  *)
(* hook (a user call, a transport callback, a timer callback) is one       *)
(* atomic action: JavaScript runs each callback to completion.             *)
(*                                                                         *)
(* Transport (PeerJS) and presence (Supabase) are outside the repository.  *)
(* They are modelled by what the hook observes of them:                    *)
(*   - a connection has two endpoints, the dialer's and the accepter's;    *)
(*     each goes pending -> open -> closed and delivers 'open', 'data'     *)
(*     and 'close' callbacks to the handlers setupConnection registered;   *)
(*   - DataConnection.close() on an open endpoint delivers the endpoint's  *)
(*     own 'close' callback either before close() returns or as a          *)
(*     later event: the model takes both, as a choice made at each         *)
(*     close() call;                                                       *)
(*   - presence is one record per peer id; track() takes effect at once    *)
(*     and presenceState() returns the records as they are at that moment; *)
(*   - Date.now() is a counter that advances at every track().             *)
(*                                                                         *)
(* React closures: a callback registered on a long-lived object keeps the  *)
(* `status` of the render it was created in.  The 'close' and 'error'      *)
(* handlers of a connection read that captured value (dcap / acap), not    *)
(* the current status.                                                     *)
(***************************************************************************)
EXTENDS Integers, Sequences, FiniteSets, TLC

\* ------------------------------------------------------------------ bounds
MaxConns == 3
MaxChans == 3
MaxMsgs == 3
\* payloads a user operation may queue on one endpoint of a connection
MaxSent == 2
\* entries of one message's reaction list
MaxReacts == 2
\* Date.now() advances once per track(): every channel publishes 'waiting' once
\* and every attachment of a main connection republishes 'busy' once
MaxClock == MaxChans + 2 * MaxConns + 1

\* ------------------------------------------------------------------ values
Peers == {"A", "B"}

ChatMode == {"IDLE", "SEARCHING", "WAITING", "CONNECTED", "DISCONNECTED", "ERROR"}

NoConn == 0
NoChan == 0

\* the hook's userProfile argument: every client passes its own profile, here
\* its username
userProfile == [c \in Peers |-> c]
Profiles == Peers

\* message ids, texts and emojis carried by payloads and user calls
MsgIds == {"m1", "m2"}
Texts == {"t1", "t2"}
Emojis == {"e1", "e2"}

\* the constants module is not part of the sources; only the id 'init-1' of
\* the greeting is fixed by the hook (line 242)
INITIAL_GREETING == [id |-> "init-1", sender |-> "system", type |-> "text",
                     text |-> "greeting", fileData |-> "none", isEdited |-> FALSE,
                     status |-> "none", reactions |-> <<>>]
STRANGER_DISCONNECTED_MSG == [id |-> "disc-1", sender |-> "system", type |-> "text",
                     text |-> "disconnected", fileData |-> "none", isEdited |-> FALSE,
                     status |-> "none", reactions |-> <<>>]

\* PeerData (types.ts): one record shape for every payload, "none" where the
\* payload has no such field
PeerData(type, payload, flag, dataType, id, messageId) ==
    [type |-> type, payload |-> payload, flag |-> flag, dataType |-> dataType,
     id |-> id, messageId |-> messageId]

VARIABLES
    status,                \* useState status: the session mode
    messages,              \* useState messages: the main history
    partnerTyping,         \* useState partnerTyping
    partnerRecording,      \* useState partnerRecording
    partnerProfile,        \* useState partnerProfile: a profile or "null"
    remoteVanishMode,      \* useState remoteVanishMode: "null" | "true" | "false"
    error,                 \* useState error: a text or "null"
    incomingDirectMessage, \* useState: <<>> (null) or <<[peerId, message]>>
    incomingReaction,      \* useState: <<>> (null) or <<[messageId, emoji, sender]>>
    incomingFriendRequest, \* useState: <<>> (null) or <<[profile, peerId]>>
    friends,               \* useState friends and its 'chat_friends' store
    recents,               \* the 'recent_peers' store
    routed,                \* type tag of the payload handleIncomingData ran on last
    peerRef,               \* "none" | "created" (no id yet) | "open" (id assigned)
                           \* | "failed" (the identity reported a fatal error)
    peerCap,               \* status captured by the peer.on('connection') handler
    pendingJoins,          \* peer.on('open', id => joinLobby(id)) handlers of connect()
    mainConnRef,           \* connection id or NoConn
    directConnsRef,        \* [Peers -> connection id or NoConn]
    channelRef,            \* channel id or NoChan
    isMatchmakerRef,       \* BOOLEAN
    connectionTimeoutRef,  \* "null" | "armed" | "fired" (a handle whose timer has run)
    typingTimeoutRef,      \* "null" | "armed" | "dead" (a handle, fired or cleared)
                           \* | "stacked" (armed while an earlier timer is pending)
    recordingTimeoutRef,
    conns,                 \* the connections ever dialed, by id
    chans,                 \* the presence channels ever created, by id
    presence,              \* the shared presence state, one record per peer
    clock                  \* Date.now()

hookVars == <<status, messages, partnerTyping, partnerRecording>>
peerVars == <<peerRef, peerCap, pendingJoins>>
connRefs == <<mainConnRef, directConnsRef>>
timerVars == <<connectionTimeoutRef, typingTimeoutRef, recordingTimeoutRef>>
lobbyVars == <<channelRef, chans, presence, clock>>
viewVars == <<partnerProfile, remoteVanishMode, error>>
sessVars == <<partnerProfile, remoteVanishMode, error, routed>>
socialVars == <<incomingDirectMessage, incomingReaction, incomingFriendRequest,
                friends, recents>>

vars == <<status, messages, partnerTyping, partnerRecording, partnerProfile,
          remoteVanishMode, error, incomingDirectMessage, incomingReaction,
          incomingFriendRequest, friends, recents, routed, peerRef, peerCap,
          pendingJoins, mainConnRef, directConnsRef, channelRef, isMatchmakerRef,
          connectionTimeoutRef, typingTimeoutRef, recordingTimeoutRef,
          conns, chans, presence, clock>>

\* ------------------------------------------------------------------ helpers
ConnIds == 1..Len(conns)
ChanIds == 1..Len(chans)

Other(c) == CHOOSE p \in Peers : p # c

\* the endpoint of connection k that lives in client c
IsDialer(k, c) == conns[k].from = c
IsAccepter(k, c) == conns[k].to = c
EpState(k, c) == IF IsDialer(k, c) THEN conns[k].dst ELSE conns[k].ast
EpCap(k, c) == IF IsDialer(k, c) THEN conns[k].dcap ELSE conns[k].acap
\* conn.peer
ConnPeer(k, c) == IF IsDialer(k, c) THEN conns[k].to ELSE conns[k].from
\* conn.open
ConnOpen(k, c) == EpState(k, c) = "open"

SetEp(cs, k, c, st) ==
    IF cs[k].from = c THEN [cs EXCEPT ![k].dst = st] ELSE [cs EXCEPT ![k].ast = st]

\* the payloads client c has handed to conn.send on connection k, in order
EpOut(k, c) == IF IsDialer(k, c) THEN conns[k].dout ELSE conns[k].aout
\* conn.send(d) by client c on connection k
Send(cs, k, c, d) ==
    IF cs[k].from = c THEN [cs EXCEPT ![k].dout = Append(@, d)]
    ELSE [cs EXCEPT ![k].aout = Append(@, d)]
\* how many of them were queued by user operations (the rest are the replies
\* and announcements of the handlers)
UserSent(k, c) ==
    Cardinality({i \in 1..Len(EpOut(k, c)) : EpOut(k, c)[i].type \notin {"profile", "seen"}})

NoPresence == [status |-> "none", timestamp |-> 0]

TypeOK ==
    /\ status \in [Peers -> ChatMode]
    /\ mainConnRef \in [Peers -> 0..MaxConns]
    /\ directConnsRef \in [Peers -> [Peers -> 0..MaxConns]]
    /\ isMatchmakerRef \in [Peers -> BOOLEAN]
    /\ connectionTimeoutRef \in [Peers -> {"null", "armed", "fired"}]
    /\ typingTimeoutRef \in [Peers -> {"null", "armed", "dead", "stacked"}]
    /\ recordingTimeoutRef \in [Peers -> {"null", "armed", "dead", "stacked"}]
    /\ partnerTyping \in [Peers -> BOOLEAN]
    /\ partnerRecording \in [Peers -> BOOLEAN]
    /\ partnerProfile \in [Peers -> Profiles \cup {"null"}]
    /\ remoteVanishMode \in [Peers -> {"null", "true", "false"}]
    /\ peerRef \in [Peers -> {"none", "created", "open", "failed"}]
    /\ \A c \in Peers : Len(messages[c]) <= MaxMsgs
    /\ \A c \in Peers : \A i \in 1..Len(messages[c]) :
          Len(messages[c][i].reactions) <= MaxReacts
    /\ \A c \in Peers : Len(incomingDirectMessage[c]) <= 1
    /\ \A c \in Peers : Len(incomingFriendRequest[c]) <= 1
    /\ Len(conns) <= MaxConns
    /\ Len(chans) <= MaxChans
    /\ clock <= MaxClock

Init ==
    /\ status = [c \in Peers |-> "IDLE"]
    /\ messages = [c \in Peers |-> <<>>]
    /\ partnerTyping = [c \in Peers |-> FALSE]
    /\ partnerRecording = [c \in Peers |-> FALSE]
    /\ partnerProfile = [c \in Peers |-> "null"]
    /\ remoteVanishMode = [c \in Peers |-> "null"]
    /\ error = [c \in Peers |-> "null"]
    /\ incomingDirectMessage = [c \in Peers |-> <<>>]
    /\ incomingReaction = [c \in Peers |-> <<>>]
    /\ incomingFriendRequest = [c \in Peers |-> <<>>]
    /\ friends = [c \in Peers |-> <<>>]
    /\ recents = [c \in Peers |-> <<>>]
    /\ routed = [c \in Peers |-> "none"]
    /\ peerRef = [c \in Peers |-> "none"]
    /\ peerCap = [c \in Peers |-> "IDLE"]
    /\ pendingJoins = [c \in Peers |-> <<>>]
    /\ mainConnRef = [c \in Peers |-> NoConn]
    /\ directConnsRef = [c \in Peers |-> [p \in Peers |-> NoConn]]
    /\ channelRef = [c \in Peers |-> NoChan]
    /\ isMatchmakerRef = [c \in Peers |-> FALSE]
    /\ connectionTimeoutRef = [c \in Peers |-> "null"]
    /\ typingTimeoutRef = [c \in Peers |-> "null"]
    /\ recordingTimeoutRef = [c \in Peers |-> "null"]
    /\ conns = <<>>
    /\ chans = <<>>
    /\ presence = [c \in Peers |-> NoPresence]
    /\ clock = 1

\* ------------------------------------------------------------------ presence
\* channel.track({peerId, status, timestamp: Date.now(), profile}) issued through
\* channelRef: it reaches the lobby when that channel has joined (a track pushed
\* while the join is in flight is sent on join, just before the SUBSCRIBED
\* callback publishes 'waiting' over it)
TrackLands(c) ==
    /\ channelRef[c] # NoChan
    /\ chans[channelRef[c]].st = "subscribed"

Tracked(pres, c, st) == [pres EXCEPT ![c] = [status |-> st, timestamp |-> clock]]

\* allUsers.filter(u => u.status === 'waiting').sort((a, b) => a.timestamp - b.timestamp)[0]
Waiters == {p \in Peers : presence[p].status = "waiting"}
HasWaiter == Waiters # {}
\* the sort runs the other way: the newest waiter is taken
NewestWaiter ==
    CHOOSE p \in Waiters : \A q \in Waiters : presence[p].timestamp >= presence[q].timestamp

OldestWaiter ==
    CHOOSE p \in Waiters : \A q \in Waiters : presence[p].timestamp <= presence[q].timestamp

\* ------------------------------------------------------------------ setupConnection
\* the metadata type is not looked at: any tagged connection takes the main slot
AttachesAsMainUntyped(md, flag) == md # "none" \/ flag

\* lines 281-296: which slot a connection is attached to.  md is the metadata
\* type ("random", "direct", or "none" when the dialer supplied no metadata)
AttachesAsMain(md, flag) == md = "random" \/ (md = "none" /\ flag)

\* the refs after setupConnection(conn k, metadata md) in client c; the handlers
\* it registers are the Ev actions below, and the status they capture is stored
\* in the connection record by the caller
SetupMain(c, k, md, flag) ==
    IF AttachesAsMain(md, flag) THEN k ELSE mainConnRef[c]
SetupFlag(md, flag) ==
    IF AttachesAsMain(md, flag) THEN FALSE ELSE flag
SetupDirect(c, k, p, md, flag) ==
    IF AttachesAsMain(md, flag) THEN directConnsRef[c]
    ELSE [directConnsRef[c] EXCEPT ![p] = k]
\* lines 286-293: republish as busy
SetupTracks(c, md, flag) ==
    /\ AttachesAsMain(md, flag)
    /\ channelRef[c] # NoChan
    /\ peerRef[c] = "open"
    /\ TrackLands(c)

\* ------------------------------------------------------------------ close()
\* DataConnection.close() called by client c on connection k.  An endpoint that
\* was open gets its 'close' callback: inline when sync, else queued ("closing").
\* The other endpoint, when open, is closed by the transport and gets its own
\* 'close' callback later; when not yet open it never opens.
RemoteAfterClose(st) ==
    CASE st = "open" -> "closing"
      [] st \in {"pending", "inflight"} -> "lost"
      [] OTHER -> st
LocalAfterClose(st, sync) ==
    CASE st = "open" -> IF sync THEN "closed" ELSE "closing"
      [] st = "pending" -> "closed"
      [] OTHER -> st
Closed(cs, k, c, sync) ==
    IF cs[k].from = c
    THEN [cs EXCEPT ![k].dst = LocalAfterClose(@, sync), ![k].ast = RemoteAfterClose(@)]
    ELSE [cs EXCEPT ![k].ast = LocalAfterClose(@, sync), ![k].dst = RemoteAfterClose(@)]

\* the handler does not compare the connection with the main slot
CloseIsMainByStatus(c, k, main) == EpCap(k, c) = "CONNECTED"

\* lines 311-318, the 'close' handler of connection k in client c: TRUE when it
\* takes the main branch.  main is the value of mainConnRef.current when it runs.
CloseIsMain(c, k, main) == k = main /\ EpCap(k, c) = "CONNECTED"

\* ------------------------------------------------------------------ stores
RECENT_LIMIT == 20

\* the list is not cut
SaveToRecentUncut(list, profile, peerId) ==
    LET OtherName(e) == e.profile # profile
    IN  <<[peerId |-> peerId, profile |-> profile]>> \o SelectSeq(list, OtherName)

\* saveToRecent(profile, peerId), lines 70-95: the stored list afterwards
SaveToRecent(list, profile, peerId) ==
    LET OtherName(e) == e.profile # profile
        put == <<[peerId |-> peerId, profile |-> profile]>> \o SelectSeq(list, OtherName)
    IN  IF Len(put) > RECENT_LIMIT THEN SubSeq(put, 1, RECENT_LIMIT) ELSE put

\* the membership test is left out
SaveFriendAgain(list, profile, peerId) ==
    <<[id |-> peerId, profile |-> profile]>> \o list

\* saveFriend(profile, peerId), lines 98-118: the friends list afterwards
SaveFriend(list, profile, peerId) ==
    IF \E i \in 1..Len(list) : list[i].id = peerId THEN list
    ELSE <<[id |-> peerId, profile |-> profile]>> \o list

\* ------------------------------------------------------------------ cleanupMain
\* lines 122-148.  runsClose: the main connection is open and its 'close'
\* handler runs inside close(), while mainConnRef.current still holds it.
CleanupRunsClose(c, sync) ==
    sync /\ mainConnRef[c] # NoConn /\ ConnOpen(mainConnRef[c], c)
CleanupConns(c, sync) ==
    IF mainConnRef[c] # NoConn THEN Closed(conns, mainConnRef[c], c, sync) ELSE conns
CleanupDirect(c, sync) ==
    IF CleanupRunsClose(c, sync) /\ ~CloseIsMain(c, mainConnRef[c], mainConnRef[c])
    THEN [directConnsRef[c] EXCEPT ![ConnPeer(mainConnRef[c], c)] = NoConn]
    ELSE directConnsRef[c]
CleanupMessages(c, sync) ==
    IF CleanupRunsClose(c, sync) /\ CloseIsMain(c, mainConnRef[c], mainConnRef[c])
    THEN Append(messages[c], STRANGER_DISCONNECTED_MSG)
    ELSE messages[c]
CleanupChans(c) ==
    IF channelRef[c] # NoChan THEN [chans EXCEPT ![channelRef[c]].st = "removed"] ELSE chans
CleanupPresence(c) ==
    IF channelRef[c] # NoChan THEN [presence EXCEPT ![c] = NoPresence] ELSE presence
\* the handle is left as it is
ClearedTimerKept(t) == t

\* clearTimeout on a handle that is set
ClearedTimer(t) == IF t = "null" THEN "null" ELSE "dead"

\* disconnect(), lines 670-675
Disconnect(c) ==
    \E sync \in BOOLEAN :
        /\ Len(CleanupMessages(c, sync)) <= MaxMsgs
        /\ chans' = CleanupChans(c)
        /\ presence' = CleanupPresence(c)
        /\ channelRef' = [channelRef EXCEPT ![c] = NoChan]
        /\ conns' = CleanupConns(c, sync)
        /\ mainConnRef' = [mainConnRef EXCEPT ![c] = NoConn]
        /\ directConnsRef' = [directConnsRef EXCEPT ![c] = CleanupDirect(c, sync)]
        /\ messages' = [messages EXCEPT ![c] = CleanupMessages(c, sync)]
        /\ connectionTimeoutRef' = [connectionTimeoutRef EXCEPT ![c] = "null"]
        /\ isMatchmakerRef' = [isMatchmakerRef EXCEPT ![c] = FALSE]
        /\ partnerTyping' = [partnerTyping EXCEPT ![c] = FALSE]
        /\ partnerRecording' = [partnerRecording EXCEPT ![c] = FALSE]
        /\ status' = [status EXCEPT ![c] = "DISCONNECTED"]
        /\ typingTimeoutRef' = [typingTimeoutRef EXCEPT ![c] = ClearedTimer(@)]
        /\ recordingTimeoutRef' = [recordingTimeoutRef EXCEPT ![c] = ClearedTimer(@)]
        \* lines 671-673: the partner is recorded before the teardown
        /\ recents' = [recents EXCEPT ![c] =
               IF partnerProfile[c] # "null" /\ mainConnRef[c] # NoConn
               THEN SaveToRecent(@, partnerProfile[c], ConnPeer(mainConnRef[c], c))
               ELSE @]
        /\ UNCHANGED <<peerVars, clock, sessVars, incomingDirectMessage,
                       incomingReaction, incomingFriendRequest, friends>>

\* ------------------------------------------------------------------ connect
\* joinLobby(myId), lines 385-392: a new channel whose handlers capture cap
NewChan(c, cap) == [owner |-> c, cap |-> cap, st |-> "joining", track |-> "none"]

RECURSIVE JoinAll(_, _, _)
JoinAll(chs, c, caps) ==
    IF caps = <<>> THEN chs
    ELSE JoinAll(Append(chs, NewChan(c, Head(caps))), c, Tail(caps))

PendingTotal == Len(pendingJoins["A"]) + Len(pendingJoins["B"])

\* initPeer(), lines 334-363: the identity is created on first use
InitPeerRef(c) == IF peerRef[c] = "none" THEN "created" ELSE peerRef[c]
InitPeerCap(c) == IF peerRef[c] = "none" THEN status[c] ELSE peerCap[c]

\* connect(), lines 367-383.  The closures of this render carry the status the
\* hook had when connect() was called.
Connect(c) ==
    \E sync \in BOOLEAN :
        /\ Len(chans) + PendingTotal < MaxChans
        /\ conns' = CleanupConns(c, sync)
        /\ mainConnRef' = [mainConnRef EXCEPT ![c] = NoConn]
        /\ directConnsRef' = [directConnsRef EXCEPT ![c] = CleanupDirect(c, sync)]
        /\ messages' = [messages EXCEPT ![c] = <<>>]
        /\ connectionTimeoutRef' = [connectionTimeoutRef EXCEPT ![c] = "null"]
        /\ isMatchmakerRef' = [isMatchmakerRef EXCEPT ![c] = FALSE]
        /\ partnerTyping' = [partnerTyping EXCEPT ![c] = FALSE]
        /\ partnerRecording' = [partnerRecording EXCEPT ![c] = FALSE]
        /\ typingTimeoutRef' = [typingTimeoutRef EXCEPT ![c] = ClearedTimer(@)]
        /\ recordingTimeoutRef' = [recordingTimeoutRef EXCEPT ![c] = ClearedTimer(@)]
        /\ presence' = CleanupPresence(c)
        /\ partnerProfile' = [partnerProfile EXCEPT ![c] = "null"]
        /\ remoteVanishMode' = [remoteVanishMode EXCEPT ![c] = "null"]
        /\ error' = [error EXCEPT ![c] = "null"]
        /\ incomingFriendRequest' = [incomingFriendRequest EXCEPT ![c] = <<>>]
        /\ UNCHANGED <<incomingDirectMessage, incomingReaction, friends, recents, routed>>
        /\ peerCap' = [peerCap EXCEPT ![c] = IF peerRef[c] = "none" THEN status[c] ELSE @]
        /\ IF peerRef[c] = "open"
           THEN /\ chans' = Append(CleanupChans(c), NewChan(c, status[c]))
                /\ channelRef' = [channelRef EXCEPT ![c] = Len(chans) + 1]
                /\ status' = [status EXCEPT ![c] = "SEARCHING"]
                /\ UNCHANGED <<peerRef, pendingJoins>>
           ELSE /\ chans' = CleanupChans(c)
                /\ channelRef' = [channelRef EXCEPT ![c] = NoChan]
                /\ status' = [status EXCEPT ![c] = "DISCONNECTED"]
                /\ peerRef' = [peerRef EXCEPT ![c] = InitPeerRef(c)]
                /\ pendingJoins' = [pendingJoins EXCEPT ![c] = Append(@, status[c])]
        /\ UNCHANGED clock

\* peer.on('open'), lines 340-343, followed by the joinLobby handlers connect()
\* registered while the identity had no id (line 380)
PeerOpen(c) ==
    /\ peerRef[c] = "created"
    /\ peerRef' = [peerRef EXCEPT ![c] = "open"]
    /\ pendingJoins' = [pendingJoins EXCEPT ![c] = <<>>]
    /\ chans' = JoinAll(chans, c, pendingJoins[c])
    /\ IF pendingJoins[c] # <<>>
       THEN /\ channelRef' = [channelRef EXCEPT ![c] = Len(chans) + Len(pendingJoins[c])]
            /\ status' = [status EXCEPT ![c] = "SEARCHING"]
            /\ error' = [error EXCEPT ![c] = "null"]
       ELSE UNCHANGED <<channelRef, status, error>>
    /\ UNCHANGED <<messages, partnerTyping, partnerRecording, peerCap, connRefs,
                   isMatchmakerRef, timerVars, conns, presence, clock,
                   partnerProfile, remoteVanishMode, routed, socialVars>>

\* subscribe callback with SUBSCRIBED, lines 443-450: track 'waiting' is issued
Subscribed(ch) ==
    /\ ch \in ChanIds
    /\ chans[ch].st = "joining"
    /\ clock < MaxClock
    /\ chans' = [chans EXCEPT ![ch].st = "subscribed", ![ch].track = "pending"]
    /\ presence' = Tracked(presence, chans[ch].owner, "waiting")
    /\ clock' = clock + 1
    /\ UNCHANGED <<hookVars, peerVars, connRefs, channelRef, isMatchmakerRef,
                   timerVars, conns, sessVars, socialVars>>

\* the completion of the publish counts as being paired
StatusAfterTrackPaired == "CONNECTED"

\* line 451: the mode set once the awaited track has resolved
StatusAfterTrack == "WAITING"

\* the awaited track resolves, line 451
TrackDone(ch) ==
    /\ ch \in ChanIds
    /\ chans[ch].track = "pending"
    /\ chans' = [chans EXCEPT ![ch].track = "done"]
    /\ status' = [status EXCEPT ![chans[ch].owner] = StatusAfterTrack]
    /\ UNCHANGED <<messages, partnerTyping, partnerRecording, peerVars, connRefs,
                   channelRef, isMatchmakerRef, timerVars, conns, presence, clock,
                   sessVars, socialVars>>

\* ------------------------------------------------------------------ dialing
\* peer.connect(target, {metadata: {type}}) by client c: a new connection whose
\* dialer endpoint is pending and which the target has not been told of yet.
\* cap is the status captured by the handlers setupConnection registers on it.
NewConn(c, p, type, cap) ==
    [from |-> c, to |-> p, type |-> type, dst |-> "pending", ast |-> "inflight",
     dcap |-> cap, acap |-> "IDLE", dout |-> <<>>, aout |-> <<>>, fr |-> FALSE]

\* what peer.connect can give: a connection, nothing, or an exception
DialOutcomes == {"conn", "none", "throw"}
\* an identity that has failed gives no connection
DialResults(c) == IF peerRef[c] = "failed" THEN {"none"} ELSE DialOutcomes

\* the catch block forgets to reset the flag
FlagAfterFailedDialKept(outcome) == outcome = "throw"

\* lines 434-440: isMatchmakerRef after peer.connect gave no connection
\* (else branch) or threw (catch)
FlagAfterFailedDial(outcome) == FALSE

\* the guard holds a snapshot back while the main slot holds any connection
SyncDialsEmptySlot(ch) ==
    LET c == chans[ch].owner IN
    /\ ~(isMatchmakerRef[c] \/ mainConnRef[c] # NoConn)
    /\ HasWaiter
    /\ OldestWaiter # c

\* presence 'sync' handler of channel ch, lines 395-442
SyncDials(ch) ==
    LET c == chans[ch].owner IN
    /\ ~(isMatchmakerRef[c] \/ (mainConnRef[c] # NoConn /\ ConnOpen(mainConnRef[c], c)))
    /\ HasWaiter
    /\ OldestWaiter # c

Sync(ch) ==
    /\ ch \in ChanIds
    /\ chans[ch].st = "subscribed"
    /\ LET c == chans[ch].owner IN
       IF ~SyncDials(ch)
       THEN UNCHANGED vars
       ELSE \E outcome \in DialResults(c) :
            IF outcome = "conn"
            THEN /\ Len(conns) < MaxConns
                 /\ clock < MaxClock
                 /\ conns' = Append(conns, NewConn(c, OldestWaiter, "random", chans[ch].cap))
                 \* isMatchmakerRef is set at line 413, then setupConnection runs
                 /\ mainConnRef' = [mainConnRef EXCEPT ![c] =
                        SetupMain(c, Len(conns) + 1, "random", TRUE)]
                 /\ directConnsRef' = [directConnsRef EXCEPT ![c] =
                        SetupDirect(c, Len(conns) + 1, OldestWaiter, "random", TRUE)]
                 /\ isMatchmakerRef' = [isMatchmakerRef EXCEPT ![c] =
                        SetupFlag("random", TRUE)]
                 /\ IF SetupTracks(c, "random", TRUE)
                    THEN /\ presence' = Tracked(presence, c, "busy")
                         /\ clock' = clock + 1
                    ELSE UNCHANGED <<presence, clock>>
                 \* lines 425-433: the safety timer is armed
                 /\ connectionTimeoutRef' = [connectionTimeoutRef EXCEPT ![c] = "armed"]
                 /\ UNCHANGED <<hookVars, peerVars, channelRef, chans,
                                typingTimeoutRef, recordingTimeoutRef,
                                sessVars, socialVars>>
            ELSE /\ isMatchmakerRef' = [isMatchmakerRef EXCEPT ![c] = FlagAfterFailedDial(outcome)]
                 /\ UNCHANGED <<hookVars, peerVars, connRefs, lobbyVars, timerVars, conns,
                                sessVars, socialVars>>

\* the safety timer callback, lines 426-433
TimerFire(c) ==
    /\ connectionTimeoutRef[c] = "armed"
    /\ connectionTimeoutRef' = [connectionTimeoutRef EXCEPT ![c] = "fired"]
    /\ IF isMatchmakerRef[c] /\ (mainConnRef[c] = NoConn \/ ~ConnOpen(mainConnRef[c], c))
       THEN /\ isMatchmakerRef' = [isMatchmakerRef EXCEPT ![c] = FALSE]
            /\ mainConnRef' = [mainConnRef EXCEPT ![c] = NoConn]
       ELSE UNCHANGED <<isMatchmakerRef, mainConnRef>>
    /\ UNCHANGED <<hookVars, peerVars, directConnsRef, lobbyVars, typingTimeoutRef,
                   recordingTimeoutRef, conns, sessVars, socialVars>>

\* peer.on('connection'), lines 345-348: the target of connection k is told of
\* it and runs setupConnection(conn, conn.metadata)
AcceptConnection(k) ==
    /\ k \in ConnIds
    /\ conns[k].ast = "inflight"
    /\ LET c == conns[k].to
           md == conns[k].type IN
       /\ peerRef[c] = "open"
       /\ SetupTracks(c, md, isMatchmakerRef[c]) => clock < MaxClock
       /\ conns' = [conns EXCEPT ![k].ast = "pending", ![k].acap = peerCap[c]]
       /\ connectionTimeoutRef' = [connectionTimeoutRef EXCEPT ![c] = "null"]
       /\ mainConnRef' = [mainConnRef EXCEPT ![c] = SetupMain(c, k, md, isMatchmakerRef[c])]
       /\ isMatchmakerRef' = [isMatchmakerRef EXCEPT ![c] = SetupFlag(md, @)]
       /\ directConnsRef' = [directConnsRef EXCEPT ![c] =
              SetupDirect(c, k, conns[k].from, md, isMatchmakerRef[c])]
       /\ IF SetupTracks(c, md, isMatchmakerRef[c])
          THEN /\ presence' = Tracked(presence, c, "busy")
               /\ clock' = clock + 1
          ELSE UNCHANGED <<presence, clock>>
    /\ UNCHANGED <<hookVars, peerVars, channelRef, chans, typingTimeoutRef,
                   recordingTimeoutRef, sessVars, socialVars>>

\* peer.on('error') with type 'peer-unavailable', lines 351-360: the target of
\* connection k cannot be reached
PeerUnavailable(k) ==
    /\ k \in ConnIds
    /\ conns[k].ast = "inflight"
    /\ conns' = [conns EXCEPT ![k].ast = "lost"]
    /\ isMatchmakerRef' = [isMatchmakerRef EXCEPT ![conns[k].from] = FALSE]
    /\ UNCHANGED <<hookVars, peerVars, connRefs, lobbyVars, timerVars,
                   sessVars, socialVars>>

\* only a connection this client dialed moves it to connected
OpenSetsConnectedDialer(c, k) == k = mainConnRef[c] /\ IsDialer(k, c)

\* conn.on('open'), lines 298-307, at the endpoint of connection k in client c
OpenSetsConnected(c, k) == k = mainConnRef[c]

\* lines 304-306 and 585: what the 'open' handlers of connection k send in
\* client c, the profile first, then the friend request registered by
\* sendDirectFriendRequest
ProfilePayload(c) == PeerData("profile", userProfile[c], FALSE, "none", "none", "none")
FriendRequestPayload(c) ==
    PeerData("friend_request", userProfile[c], FALSE, "none", "none", "none")
\* the friend request overtakes the profile
OpenSendsRequestFirst(cs, k, c) ==
    IF cs[k].from = c /\ cs[k].fr
    THEN Send(Send(cs, k, c, FriendRequestPayload(c)), k, c, ProfilePayload(c))
    ELSE Send(cs, k, c, ProfilePayload(c))

OpenSends(cs, k, c) ==
    LET withProfile == Send(cs, k, c, ProfilePayload(c)) IN
    IF cs[k].from = c /\ cs[k].fr
    THEN Send(withProfile, k, c, FriendRequestPayload(c))
    ELSE withProfile

OpenEv(k, c) ==
    /\ k \in ConnIds
    /\ c \in {conns[k].from, conns[k].to}
    /\ EpState(k, c) = "pending"
    /\ IsDialer(k, c) => conns[k].ast \in {"pending", "open"}
    /\ conns' = OpenSends(SetEp(conns, k, c, "open"), k, c)
    /\ IF OpenSetsConnected(c, k)
       THEN /\ status' = [status EXCEPT ![c] = "CONNECTED"]
            /\ messages' = [messages EXCEPT ![c] = <<INITIAL_GREETING>>]
            /\ error' = [error EXCEPT ![c] = "null"]
       ELSE UNCHANGED <<status, messages, error>>
    /\ UNCHANGED <<partnerTyping, partnerRecording, peerVars, connRefs, lobbyVars,
                   isMatchmakerRef, timerVars, partnerProfile, remoteVanishMode,
                   routed, socialVars>>

\* conn.on('close'), lines 311-318, at the endpoint of connection k in client c
CloseEv(k, c) ==
    /\ k \in ConnIds
    /\ c \in {conns[k].from, conns[k].to}
    /\ EpState(k, c) = "closing"
    /\ conns' = SetEp(conns, k, c, "closed")
    /\ IF CloseIsMain(c, k, mainConnRef[c])
       THEN /\ Len(messages[c]) < MaxMsgs
            /\ status' = [status EXCEPT ![c] = "DISCONNECTED"]
            /\ messages' = [messages EXCEPT ![c] = Append(@, STRANGER_DISCONNECTED_MSG)]
            /\ UNCHANGED directConnsRef
       ELSE /\ directConnsRef' = [directConnsRef EXCEPT ![c][ConnPeer(k, c)] = NoConn]
            /\ UNCHANGED <<status, messages>>
    /\ UNCHANGED <<partnerTyping, partnerRecording, peerVars, mainConnRef, lobbyVars,
                   isMatchmakerRef, timerVars, sessVars, socialVars>>

\* the transport loses connection k: every open endpoint will get 'close'
ConnDrop(k) ==
    /\ k \in ConnIds
    /\ "open" \in {conns[k].dst, conns[k].ast}
    /\ conns' = [conns EXCEPT ![k].dst = RemoteAfterClose(@), ![k].ast = RemoteAfterClose(@)]
    /\ UNCHANGED <<hookVars, peerVars, connRefs, lobbyVars, isMatchmakerRef, timerVars,
                   sessVars, socialVars>>

\* ------------------------------------------------------------------ router
\* handleIncomingData with a 'disconnect' payload, lines 261-270, delivered on
\* connection k to client c
DataDisconnect(k, c) ==
    /\ k \in ConnIds
    /\ c \in {conns[k].from, conns[k].to}
    /\ ConnOpen(k, c)
    /\ IF k = mainConnRef[c]
       THEN \E sync \in BOOLEAN :
            LET twice == sync /\ CloseIsMain(c, k, k)
                ms == Append(messages[c], STRANGER_DISCONNECTED_MSG) IN
            /\ Len(messages[c]) + (IF twice THEN 2 ELSE 1) <= MaxMsgs
            /\ status' = [status EXCEPT ![c] = "DISCONNECTED"]
            /\ messages' = [messages EXCEPT ![c] =
                   IF twice THEN Append(ms, STRANGER_DISCONNECTED_MSG) ELSE ms]
            /\ conns' = Closed(conns, k, c, sync)
            /\ directConnsRef' = [directConnsRef EXCEPT ![c] =
                   IF sync /\ ~CloseIsMain(c, k, k)
                   THEN [@ EXCEPT ![ConnPeer(k, c)] = NoConn] ELSE @]
            /\ mainConnRef' = [mainConnRef EXCEPT ![c] = NoConn]
       ELSE /\ directConnsRef' = [directConnsRef EXCEPT ![c][ConnPeer(k, c)] = NoConn]
            /\ UNCHANGED <<status, messages, conns, mainConnRef>>
    /\ routed' = [routed EXCEPT ![c] = "disconnect"]
    /\ UNCHANGED <<partnerTyping, partnerRecording, peerVars, lobbyVars,
                   isMatchmakerRef, timerVars, viewVars, socialVars>>

\* handleIncomingData(data, conn), lines 151-271: the branch the if / else-if
\* chain takes for a payload of that type
KnownTypes == {"message", "seen", "reaction", "edit_message", "typing", "recording",
               "profile", "vanish_mode", "friend_request", "friend_accept", "disconnect"}

\* a payload no branch matches is treated as the end of the session
RouterBranchStrict(type, isMain) ==
    IF type \in {"typing", "recording", "vanish_mode"} /\ ~isMain THEN "none"
    ELSE IF type \in KnownTypes THEN type
    ELSE "disconnect"

\* the indicator and vanish branches are taken on every connection
RouterBranchShared(type, isMain) == IF type \in KnownTypes THEN type ELSE "none"

RouterBranch(type, isMain) ==
    IF type \in {"typing", "recording", "vanish_mode"} /\ ~isMain THEN "none"
    ELSE IF type \in KnownTypes THEN type
    ELSE "none"

\* lines 165-166
IsFile(dataType) == dataType \in {"image", "audio"}

\* the receiver always gives the message an id of its own
NewMessageOwnId(d, n) ==
    [id |-> "gen" \o ToString(n),
     sender |-> "stranger",
     type |-> IF d.dataType # "none" THEN d.dataType ELSE "text",
     text |-> IF IsFile(d.dataType) THEN "none" ELSE d.payload,
     fileData |-> IF IsFile(d.dataType) THEN d.payload ELSE "none",
     isEdited |-> FALSE, status |-> "none", reactions |-> <<>>]

\* lines 157-167: the message built from a 'message' payload.  n is the length
\* of the history, which makes the fallback id a new one
NewMessage(d, n) ==
    [id |-> IF d.id # "none" THEN d.id ELSE "gen" \o ToString(n),
     sender |-> "stranger",
     type |-> IF d.dataType # "none" THEN d.dataType ELSE "text",
     text |-> IF IsFile(d.dataType) THEN "none" ELSE d.payload,
     fileData |-> IF IsFile(d.dataType) THEN d.payload ELSE "none",
     isEdited |-> FALSE, status |-> "none", reactions |-> <<>>]

\* every message the user sent is marked, whatever the receipt names
MarkSeenAll(ms, id) ==
    [i \in 1..Len(ms) |->
        IF ms[i].sender = "me" THEN [ms[i] EXCEPT !.status = "seen"] ELSE ms[i]]

\* lines 192-194
MarkSeen(ms, id) ==
    [i \in 1..Len(ms) |-> IF ms[i].id = id THEN [ms[i] EXCEPT !.status = "seen"] ELSE ms[i]]

HasReaction(m, emoji, sender) ==
    \E j \in 1..Len(m.reactions) :
        m.reactions[j].sender = sender /\ m.reactions[j].emoji = emoji

\* lines 203-210: the inbound reaction, added unless the stranger already has it
AddStrangerReaction(ms, id, emoji) ==
    [i \in 1..Len(ms) |->
        IF ms[i].id = id /\ ~HasReaction(ms[i], emoji, "stranger")
        THEN [ms[i] EXCEPT !.reactions = Append(@, [emoji |-> emoji, sender |-> "stranger"])]
        ELSE ms[i]]

\* an inbound edit is applied to whatever message has the id
RemoteEditTargetAny(m, id) == id = "none" \/ m.id = id

\* line 218: the messages an inbound edit applies to
RemoteEditTarget(m, id) ==
    m.sender = "stranger" /\ m.type = "text" /\ (id = "none" \/ m.id = id)

\* lines 217-222
ApplyRemoteEdit(ms, id, text) ==
    [i \in 1..Len(ms) |->
        IF RemoteEditTarget(ms[i], id)
        THEN [ms[i] EXCEPT !.text = text, !.isEdited = TRUE]
        ELSE ms[i]]

\* lines 240-243
GreetWith(ms, profile) ==
    [i \in 1..Len(ms) |->
        IF ms[i].id = "init-1" THEN [ms[i] EXCEPT !.text = "connected:" \o profile]
        ELSE ms[i]]

RouterFrame(c, d) ==
    /\ routed' = [routed EXCEPT ![c] = d.type]
    /\ UNCHANGED <<status, peerVars, connRefs, lobbyVars, isMatchmakerRef,
                   connectionTimeoutRef>>

HandleIncomingData(k, c, d) ==
    /\ k \in ConnIds
    /\ c \in {conns[k].from, conns[k].to}
    /\ ConnOpen(k, c)
    /\ LET isMain == k = mainConnRef[c]
           branch == RouterBranch(d.type, isMain) IN
       CASE branch = "message" ->
            IF isMain
            THEN /\ Len(messages[c]) < MaxMsgs
                 /\ partnerTyping' = [partnerTyping EXCEPT ![c] = FALSE]
                 /\ partnerRecording' = [partnerRecording EXCEPT ![c] = FALSE]
                 /\ typingTimeoutRef' = [typingTimeoutRef EXCEPT ![c] = ClearedTimer(@)]
                 /\ recordingTimeoutRef' = [recordingTimeoutRef EXCEPT ![c] = ClearedTimer(@)]
                 /\ messages' = [messages EXCEPT ![c] =
                        Append(@, NewMessage(d, Len(messages[c])))]
                 /\ conns' = Send(conns, k, c,
                        PeerData("seen", "none", FALSE, "none", "none",
                                 NewMessage(d, Len(messages[c])).id))
                 /\ RouterFrame(c, d)
                 /\ UNCHANGED <<viewVars, socialVars>>
            ELSE /\ incomingDirectMessage' = [incomingDirectMessage EXCEPT ![c] =
                        <<[peerId |-> ConnPeer(k, c),
                           message |-> NewMessage(d, Len(messages[c]))]>>]
                 /\ RouterFrame(c, d)
                 /\ UNCHANGED <<messages, partnerTyping, partnerRecording, conns,
                                typingTimeoutRef, recordingTimeoutRef, viewVars,
                                incomingReaction, incomingFriendRequest, friends, recents>>
         [] branch = "seen" ->
            /\ messages' = [messages EXCEPT ![c] =
                   IF isMain /\ d.messageId # "none" THEN MarkSeen(@, d.messageId) ELSE @]
            /\ RouterFrame(c, d)
            /\ UNCHANGED <<partnerTyping, partnerRecording, conns, typingTimeoutRef,
                           recordingTimeoutRef, viewVars, socialVars>>
         [] branch = "reaction" ->
            /\ \A i \in 1..Len(messages[c]) : Len(messages[c][i].reactions) < MaxReacts
            /\ incomingReaction' = [incomingReaction EXCEPT ![c] =
                   IF d.messageId # "none"
                   THEN <<[messageId |-> d.messageId, emoji |-> d.payload,
                           sender |-> "stranger"]>>
                   ELSE @]
            /\ messages' = [messages EXCEPT ![c] =
                   IF d.messageId # "none" /\ isMain
                   THEN AddStrangerReaction(@, d.messageId, d.payload) ELSE @]
            /\ RouterFrame(c, d)
            /\ UNCHANGED <<partnerTyping, partnerRecording, conns, typingTimeoutRef,
                           recordingTimeoutRef, viewVars, incomingDirectMessage,
                           incomingFriendRequest, friends, recents>>
         [] branch = "edit_message" ->
            /\ messages' = [messages EXCEPT ![c] =
                   IF isMain THEN ApplyRemoteEdit(@, d.messageId, d.payload) ELSE @]
            /\ RouterFrame(c, d)
            /\ UNCHANGED <<partnerTyping, partnerRecording, conns, typingTimeoutRef,
                           recordingTimeoutRef, viewVars, socialVars>>
         [] branch = "typing" ->
            /\ partnerTyping' = [partnerTyping EXCEPT ![c] = d.flag]
            /\ typingTimeoutRef' = [typingTimeoutRef EXCEPT ![c] =
                   IF ~d.flag THEN ClearedTimer(@)
                   ELSE IF ClearedTimer(@) = "armed" THEN "stacked" ELSE "armed"]
            /\ RouterFrame(c, d)
            /\ UNCHANGED <<messages, partnerRecording, conns, recordingTimeoutRef,
                           viewVars, socialVars>>
         [] branch = "recording" ->
            /\ partnerRecording' = [partnerRecording EXCEPT ![c] = d.flag]
            /\ recordingTimeoutRef' = [recordingTimeoutRef EXCEPT ![c] =
                   IF ~d.flag THEN ClearedTimer(@)
                   ELSE IF ClearedTimer(@) = "armed" THEN "stacked" ELSE "armed"]
            /\ RouterFrame(c, d)
            /\ UNCHANGED <<messages, partnerTyping, conns, typingTimeoutRef,
                           viewVars, socialVars>>
         [] branch = "profile" ->
            /\ partnerProfile' = [partnerProfile EXCEPT ![c] =
                   IF isMain THEN d.payload ELSE @]
            /\ recents' = [recents EXCEPT ![c] = SaveToRecent(@, d.payload, ConnPeer(k, c))]
            /\ messages' = [messages EXCEPT ![c] =
                   IF isMain THEN GreetWith(@, d.payload) ELSE @]
            /\ RouterFrame(c, d)
            /\ UNCHANGED <<partnerTyping, partnerRecording, conns, typingTimeoutRef,
                           recordingTimeoutRef, remoteVanishMode, error,
                           incomingDirectMessage, incomingReaction,
                           incomingFriendRequest, friends>>
         [] branch = "vanish_mode" ->
            /\ remoteVanishMode' = [remoteVanishMode EXCEPT ![c] = IF d.flag THEN "true" ELSE "false"]
            /\ RouterFrame(c, d)
            /\ UNCHANGED <<messages, partnerTyping, partnerRecording, conns,
                           typingTimeoutRef, recordingTimeoutRef, partnerProfile,
                           error, socialVars>>
         [] branch = "friend_request" ->
            /\ incomingFriendRequest' = [incomingFriendRequest EXCEPT ![c] =
                   <<[profile |-> d.payload, peerId |-> ConnPeer(k, c)]>>]
            /\ RouterFrame(c, d)
            /\ UNCHANGED <<messages, partnerTyping, partnerRecording, conns,
                           typingTimeoutRef, recordingTimeoutRef, viewVars,
                           incomingDirectMessage, incomingReaction, friends, recents>>
         [] branch = "friend_accept" ->
            /\ friends' = [friends EXCEPT ![c] = SaveFriend(@, d.payload, ConnPeer(k, c))]
            /\ RouterFrame(c, d)
            /\ UNCHANGED <<messages, partnerTyping, partnerRecording, conns,
                           typingTimeoutRef, recordingTimeoutRef, viewVars,
                           incomingDirectMessage, incomingReaction,
                           incomingFriendRequest, recents>>
         [] branch = "disconnect" -> DataDisconnect(k, c)
         [] OTHER ->
            /\ RouterFrame(c, d)
            /\ UNCHANGED <<messages, partnerTyping, partnerRecording, conns,
                           typingTimeoutRef, recordingTimeoutRef, viewVars, socialVars>>

\* the auto-clear timers of the indicators, lines 228 and 233
TypingTimeout(c) ==
    /\ typingTimeoutRef[c] \in {"armed", "stacked"}
    /\ typingTimeoutRef' = [typingTimeoutRef EXCEPT ![c] =
           IF @ = "stacked" THEN "armed" ELSE "dead"]
    /\ partnerTyping' = [partnerTyping EXCEPT ![c] = FALSE]
    /\ UNCHANGED <<status, messages, partnerRecording, peerVars, connRefs, lobbyVars,
                   isMatchmakerRef, connectionTimeoutRef, recordingTimeoutRef, conns,
                   sessVars, socialVars>>

RecordingTimeout(c) ==
    /\ recordingTimeoutRef[c] \in {"armed", "stacked"}
    /\ recordingTimeoutRef' = [recordingTimeoutRef EXCEPT ![c] =
           IF @ = "stacked" THEN "armed" ELSE "dead"]
    /\ partnerRecording' = [partnerRecording EXCEPT ![c] = FALSE]
    /\ UNCHANGED <<status, messages, partnerTyping, peerVars, connRefs, lobbyVars,
                   isMatchmakerRef, connectionTimeoutRef, typingTimeoutRef, conns,
                   sessVars, socialVars>>

\* ------------------------------------------------------------------ main sends
\* the guard of every main send: mainConnRef.current && status === CONNECTED

\* conn.send(d) on the main connection when the guard holds
MainSend(c, d) ==
    IF mainConnRef[c] # NoConn /\ status[c] = "CONNECTED"
    THEN /\ UserSent(mainConnRef[c], c) < MaxSent
         /\ conns' = Send(conns, mainConnRef[c], c, d)
    ELSE UNCHANGED conns

SendFrame ==
    UNCHANGED <<status, partnerTyping, partnerRecording, peerVars, connRefs, lobbyVars,
                isMatchmakerRef, timerVars, sessVars, socialVars>>

\* sendMessage(text), lines 457-472; id is Date.now() + Math.random(), a new id
SendMessage(c, text, id) ==
    /\ \A i \in 1..Len(messages[c]) : messages[c][i].id # id
    /\ Len(messages[c]) < MaxMsgs
    /\ MainSend(c, PeerData("message", text, FALSE, "text", id, "none"))
    /\ messages' = [messages EXCEPT ![c] = Append(@,
           [id |-> id, sender |-> "me", type |-> "text", text |-> text,
            fileData |-> "none", isEdited |-> FALSE, status |-> "sent",
            reactions |-> <<>>])]
    /\ SendFrame

\* lines 510-515
AddMyReaction(ms, id, emoji) ==
    [i \in 1..Len(ms) |->
        IF ms[i].id = id
        THEN [ms[i] EXCEPT !.reactions = Append(@, [emoji |-> emoji, sender |-> "me"])]
        ELSE ms[i]]

\* sendReaction(messageId, emoji), lines 509-520
SendReaction(c, id, emoji) ==
    /\ \A i \in 1..Len(messages[c]) : Len(messages[c][i].reactions) < MaxReacts
    /\ messages' = [messages EXCEPT ![c] = AddMyReaction(@, id, emoji)]
    /\ MainSend(c, PeerData("reaction", emoji, FALSE, "none", "none", id))
    /\ SendFrame

\* lines 523-526
ApplyLocalEdit(ms, id, text) ==
    [i \in 1..Len(ms) |->
        IF ms[i].id = id THEN [ms[i] EXCEPT !.text = text, !.isEdited = TRUE] ELSE ms[i]]

\* editMessage(messageId, newText), lines 522-531
EditMessage(c, id, text) ==
    /\ messages' = [messages EXCEPT ![c] = ApplyLocalEdit(@, id, text)]
    /\ MainSend(c, PeerData("edit_message", text, FALSE, "none", "none", id))
    /\ SendFrame

\* ------------------------------------------------------------------ errors
\* peer.on('error'), lines 351-360: the mode after an error of that type
StatusAfterPeerError(c, type) == status[c]

PeerErrorTypes == {"browser-incompatible", "network", "server-error"}

\* peer.on('error') with a fatal type: the identity is lost to the transport
PeerFatal(c, type) ==
    /\ peerRef[c] \in {"created", "open"}
    /\ peerRef' = [peerRef EXCEPT ![c] = "failed"]
    /\ status' = [status EXCEPT ![c] = StatusAfterPeerError(c, type)]
    /\ isMatchmakerRef' = [isMatchmakerRef EXCEPT ![c] =
           IF type = "peer-unavailable" THEN FALSE ELSE @]
    /\ UNCHANGED <<messages, partnerTyping, partnerRecording, peerCap, pendingJoins,
                   connRefs, lobbyVars, timerVars, conns, sessVars, socialVars>>

\* conn.on('error'), lines 320-329, at the endpoint of connection k in client c
ConnError(k, c) ==
    /\ k \in ConnIds
    /\ c \in {conns[k].from, conns[k].to}
    /\ EpState(k, c) \in {"pending", "open"}
    /\ IF k = mainConnRef[c]
       THEN /\ error' = [error EXCEPT ![c] = "Connection lost."]
            /\ isMatchmakerRef' = [isMatchmakerRef EXCEPT ![c] =
                   IF EpCap(k, c) \in {"SEARCHING", "WAITING"} THEN FALSE ELSE @]
       ELSE UNCHANGED <<error, isMatchmakerRef>>
    /\ UNCHANGED <<hookVars, peerVars, connRefs, lobbyVars, timerVars, conns,
                   partnerProfile, remoteVanishMode, routed, socialVars>>

\* ------------------------------------------------------------------ direct dials
\* conn = peer.connect(p, {metadata: {type: 'direct'}}); setupConnection(conn,
\* {type: 'direct'}) in client c.  fr: sendDirectFriendRequest registers its own
\* 'open' handler on the connection; sends: what the caller queues on it at once
DialDirect(c, p, fr, sends) ==
    /\ Len(conns) < MaxConns
    /\ conns' = Append(conns, [NewConn(c, p, "direct", status[c])
                                 EXCEPT !.fr = fr, !.dout = sends])
    /\ connectionTimeoutRef' = [connectionTimeoutRef EXCEPT ![c] = "null"]
    /\ mainConnRef' = [mainConnRef EXCEPT ![c] =
           SetupMain(c, Len(conns) + 1, "direct", isMatchmakerRef[c])]
    /\ isMatchmakerRef' = [isMatchmakerRef EXCEPT ![c] = SetupFlag("direct", @)]
    /\ directConnsRef' = [directConnsRef EXCEPT ![c] =
           SetupDirect(c, Len(conns) + 1, p, "direct", isMatchmakerRef[c])]

NoDial ==
    UNCHANGED <<conns, connectionTimeoutRef, mainConnRef, isMatchmakerRef, directConnsRef>>

\* conn.send(d) on the existing connection k, nothing else
SendOnly(c, k, d) ==
    /\ UserSent(k, c) < MaxSent
    /\ conns' = Send(conns, k, c, d)
    /\ UNCHANGED <<connectionTimeoutRef, mainConnRef, isMatchmakerRef, directConnsRef>>

\* acceptFriendRequest(), lines 655-668: the requester is saved, the accept goes
\* out on the open direct connection to the requester or else on the main
\* connection when its peer is the requester, and the pending request is cleared
AcceptFriendRequest(c) ==
    /\ IF incomingFriendRequest[c] = <<>>
       THEN UNCHANGED <<friends, incomingFriendRequest, conns>>
       ELSE LET req == incomingFriendRequest[c][1]
                directConn == directConnsRef[c][req.peerId]
                accept == PeerData("friend_accept", userProfile[c], FALSE,
                                   "none", "none", "none")
            IN /\ friends' = [friends EXCEPT ![c] = SaveFriend(@, req.profile, req.peerId)]
               /\ incomingFriendRequest' = [incomingFriendRequest EXCEPT ![c] = <<>>]
               /\ IF directConn # NoConn /\ ConnOpen(directConn, c)
                  THEN /\ UserSent(directConn, c) < MaxSent
                       /\ conns' = Send(conns, directConn, c, accept)
                  ELSE IF /\ mainConnRef[c] # NoConn
                          /\ ConnPeer(mainConnRef[c], c) = req.peerId
                  THEN /\ UserSent(mainConnRef[c], c) < MaxSent
                       /\ conns' = Send(conns, mainConnRef[c], c, accept)
                  ELSE UNCHANGED conns
    /\ UNCHANGED <<hookVars, peerVars, connRefs, lobbyVars, isMatchmakerRef, timerVars,
                   sessVars, incomingDirectMessage, incomingReaction, recents, routed>>

\* callPeer(targetPeerId, targetProfile), lines 594-610.  known: the caller
\* passed the target's profile
CallPeerDials(c, p) == directConnsRef[c][p] = NoConn

CallPeer(c, p, known) ==
    /\ p # c
    /\ peerRef' = [peerRef EXCEPT ![c] = InitPeerRef(c)]
    /\ peerCap' = [peerCap EXCEPT ![c] = InitPeerCap(c)]
    /\ recents' = [recents EXCEPT ![c] =
           IF known THEN SaveToRecent(@, userProfile[p], p) ELSE @]
    /\ IF CallPeerDials(c, p)
       THEN \E outcome \in DialResults(c) :
            IF outcome = "conn" THEN DialDirect(c, p, FALSE, <<>>) ELSE NoDial
       ELSE NoDial
    /\ UNCHANGED <<hookVars, pendingJoins, lobbyVars, typingTimeoutRef, recordingTimeoutRef,
                   sessVars, incomingDirectMessage, incomingReaction,
                   incomingFriendRequest, friends>>

\* sendDirectMessage(targetPeerId, text, id), lines 534-561
SendDirectMessageDials(c, p) == directConnsRef[c][p] = NoConn /\ peerRef[c] # "none"

DirectMessagePayload(text, id) == PeerData("message", text, FALSE, "text", id, "none")

SendDirectMessage(c, p, text, id) ==
    /\ p # c
    /\ IF SendDirectMessageDials(c, p)
       THEN \E outcome \in DialResults(c) :
            IF outcome = "conn"
            THEN DialDirect(c, p, FALSE, <<DirectMessagePayload(text, id)>>)
            ELSE NoDial
       ELSE IF directConnsRef[c][p] # NoConn
            THEN SendOnly(c, directConnsRef[c][p], DirectMessagePayload(text, id))
            ELSE NoDial
    /\ UNCHANGED <<hookVars, peerVars, lobbyVars, typingTimeoutRef, recordingTimeoutRef,
                   sessVars, socialVars>>

\* sendDirectFriendRequest(targetPeerId), lines 564-591
SendDirectFriendRequestDials(c, p) ==
    /\ ~(directConnsRef[c][p] # NoConn /\ ConnOpen(directConnsRef[c][p], c))
    /\ peerRef[c] # "none"

SendDirectFriendRequest(c, p) ==
    /\ p # c
    /\ IF directConnsRef[c][p] # NoConn /\ ConnOpen(directConnsRef[c][p], c)
       THEN SendOnly(c, directConnsRef[c][p], FriendRequestPayload(c))
       ELSE IF SendDirectFriendRequestDials(c, p)
            THEN \E outcome \in DialResults(c) :
                 IF outcome = "conn" THEN DialDirect(c, p, TRUE, <<>>) ELSE NoDial
            ELSE NoDial
    /\ UNCHANGED <<hookVars, peerVars, lobbyVars, typingTimeoutRef, recordingTimeoutRef,
                   sessVars, socialVars>>

\* ------------------------------------------------------------------ specification
\* the payloads a remote peer may deliver
Payloads ==
    {PeerData("message", t, FALSE, dt, id, "none") :
        t \in Texts, dt \in {"text", "image", "none"}, id \in MsgIds \cup {"none"}}
    \cup {PeerData(type, x, FALSE, "none", "none", id) :
            type \in {"seen", "reaction", "edit_message"},
            x \in Texts \cup Emojis, id \in MsgIds \cup {"none"}}
    \cup {PeerData(type, "none", b, "none", "none", "none") :
            type \in {"typing", "recording", "vanish_mode"}, b \in BOOLEAN}
    \cup {PeerData(type, pr, FALSE, "none", "none", "none") :
            type \in {"profile", "profile_update", "friend_request", "friend_accept"},
            pr \in Profiles}
    \cup {PeerData(type, "none", FALSE, "none", "none", "none") :
            type \in {"disconnect", "ping"}}

Next ==
    \/ \E c \in Peers : Connect(c)
    \/ \E c \in Peers : Disconnect(c)
    \/ \E c \in Peers : PeerOpen(c)
    \/ \E ch \in 1..MaxChans : Subscribed(ch)
    \/ \E ch \in 1..MaxChans : TrackDone(ch)
    \/ \E ch \in 1..MaxChans : Sync(ch)
    \/ \E c \in Peers : TimerFire(c)
    \/ \E k \in 1..MaxConns : AcceptConnection(k)
    \/ \E k \in 1..MaxConns : PeerUnavailable(k)
    \/ \E k \in 1..MaxConns, c \in Peers : OpenEv(k, c)
    \/ \E k \in 1..MaxConns, c \in Peers : CloseEv(k, c)
    \/ \E k \in 1..MaxConns : ConnDrop(k)
    \/ \E k \in 1..MaxConns, c \in Peers, d \in Payloads : HandleIncomingData(k, c, d)
    \/ \E c \in Peers : TypingTimeout(c)
    \/ \E c \in Peers : RecordingTimeout(c)
    \/ \E c \in Peers, t \in Texts, id \in MsgIds : SendMessage(c, t, id)
    \/ \E c \in Peers, id \in MsgIds, e \in Emojis : SendReaction(c, id, e)
    \/ \E c \in Peers, id \in MsgIds, t \in Texts : EditMessage(c, id, t)
    \/ \E c \in Peers, type \in PeerErrorTypes : PeerFatal(c, type)
    \/ \E k \in 1..MaxConns, c \in Peers : ConnError(k, c)
    \/ \E c, p \in Peers, known \in BOOLEAN : CallPeer(c, p, known)
    \/ \E c, p \in Peers, t \in Texts, id \in MsgIds : SendDirectMessage(c, p, t, id)
    \/ \E c, p \in Peers : SendDirectFriendRequest(c, p)

Spec == Init /\ [][Next]_vars

\* ------------------------------------------------------------------ scenarios
\* Scenario A of the specification: both clients have called connect() from
\* idle, their identities are registered, both have published 'waiting' (A
\* first) and both subscribe callbacks have completed.
LobbyChan(c) == [owner |-> c, cap |-> "IDLE", st |-> "subscribed", track |-> "done"]

InitWaiting ==
    /\ status = [c \in Peers |-> "WAITING"]
    /\ messages = [c \in Peers |-> <<>>]
    /\ partnerTyping = [c \in Peers |-> FALSE]
    /\ partnerRecording = [c \in Peers |-> FALSE]
    /\ partnerProfile = [c \in Peers |-> "null"]
    /\ remoteVanishMode = [c \in Peers |-> "null"]
    /\ error = [c \in Peers |-> "null"]
    /\ incomingDirectMessage = [c \in Peers |-> <<>>]
    /\ incomingReaction = [c \in Peers |-> <<>>]
    /\ incomingFriendRequest = [c \in Peers |-> <<>>]
    /\ friends = [c \in Peers |-> <<>>]
    /\ recents = [c \in Peers |-> <<>>]
    /\ routed = [c \in Peers |-> "none"]
    /\ peerRef = [c \in Peers |-> "open"]
    /\ peerCap = [c \in Peers |-> "IDLE"]
    /\ pendingJoins = [c \in Peers |-> <<>>]
    /\ mainConnRef = [c \in Peers |-> NoConn]
    /\ directConnsRef = [c \in Peers |-> [p \in Peers |-> NoConn]]
    /\ channelRef = [c \in Peers |-> IF c = "A" THEN 1 ELSE 2]
    /\ isMatchmakerRef = [c \in Peers |-> FALSE]
    /\ connectionTimeoutRef = [c \in Peers |-> "null"]
    /\ typingTimeoutRef = [c \in Peers |-> "null"]
    /\ recordingTimeoutRef = [c \in Peers |-> "null"]
    /\ conns = <<>>
    /\ chans = <<LobbyChan("A"), LobbyChan("B")>>
    /\ presence = [c \in Peers |-> [status |-> "waiting",
                                    timestamp |-> IF c = "A" THEN 1 ELSE 2]]
    /\ clock = 3

NextA ==
    \/ \E ch \in 1..MaxChans : Sync(ch)
    \/ \E c \in Peers : TimerFire(c)
    \/ \E k \in 1..MaxConns : AcceptConnection(k)
    \/ \E k \in 1..MaxConns : PeerUnavailable(k)
    \/ \E k \in 1..MaxConns, c \in Peers : OpenEv(k, c)

SpecA == InitWaiting /\ [][NextA]_vars

\* a transport that opens every dialed connection: Scenario A without failures
SyncConn(ch) == Sync(ch) /\ Len(conns') > Len(conns)

NextAFair ==
    \/ \E ch \in 1..MaxChans : Sync(ch)
    \/ \E c \in Peers : TimerFire(c)
    \/ \E k \in 1..MaxConns : AcceptConnection(k)
    \/ \E k \in 1..MaxConns, c \in Peers : OpenEv(k, c)

SpecAFair ==
    /\ InitWaiting
    /\ [][NextAFair]_vars
    /\ \A ch \in 1..MaxChans : WF_vars(SyncConn(ch))
    /\ \A c \in Peers : WF_vars(TimerFire(c))
    /\ \A k \in 1..MaxConns : WF_vars(AcceptConnection(k))
    /\ \A k \in 1..MaxConns, c \in Peers : WF_vars(OpenEv(k, c))

\* The pair of Scenario A once connected: B dialed A, both endpoints opened and
\* the safety timer of the dial has run.
InitPaired ==
    /\ status = [c \in Peers |-> "CONNECTED"]
    /\ messages = [c \in Peers |-> <<INITIAL_GREETING>>]
    /\ partnerTyping = [c \in Peers |-> FALSE]
    /\ partnerRecording = [c \in Peers |-> FALSE]
    /\ partnerProfile = [c \in Peers |-> "null"]
    /\ remoteVanishMode = [c \in Peers |-> "null"]
    /\ error = [c \in Peers |-> "null"]
    /\ incomingDirectMessage = [c \in Peers |-> <<>>]
    /\ incomingReaction = [c \in Peers |-> <<>>]
    /\ incomingFriendRequest = [c \in Peers |-> <<>>]
    /\ friends = [c \in Peers |-> <<>>]
    /\ recents = [c \in Peers |-> <<>>]
    /\ routed = [c \in Peers |-> "none"]
    /\ peerRef = [c \in Peers |-> "open"]
    /\ peerCap = [c \in Peers |-> "IDLE"]
    /\ pendingJoins = [c \in Peers |-> <<>>]
    /\ mainConnRef = [c \in Peers |-> 1]
    /\ directConnsRef = [c \in Peers |-> [p \in Peers |-> NoConn]]
    /\ channelRef = [c \in Peers |-> IF c = "A" THEN 1 ELSE 2]
    /\ isMatchmakerRef = [c \in Peers |-> FALSE]
    /\ connectionTimeoutRef = [c \in Peers |-> IF c = "A" THEN "null" ELSE "fired"]
    /\ typingTimeoutRef = [c \in Peers |-> "null"]
    /\ recordingTimeoutRef = [c \in Peers |-> "null"]
    /\ conns = << [from |-> "B", to |-> "A", type |-> "random", dst |-> "open",
                   ast |-> "open", dcap |-> "IDLE", acap |-> "IDLE",
                   dout |-> <<ProfilePayload("B")>>, aout |-> <<ProfilePayload("A")>>,
                   fr |-> FALSE] >>
    /\ chans = <<LobbyChan("A"), LobbyChan("B")>>
    /\ presence = [c \in Peers |-> [status |-> "busy",
                                    timestamp |-> IF c = "A" THEN 4 ELSE 3]]
    /\ clock = 5

\* Direct dialing beside the session: A's user issues the direct-dial
\* operations, either user may leave the session, and the transport delivers
\* every connection, open and close event.
NextDial ==
    \/ \E p \in Peers : CallPeer("A", p, FALSE)
    \/ \E p \in Peers : SendDirectMessage("A", p, "t1", "m1")
    \/ \E p \in Peers : SendDirectFriendRequest("A", p)
    \/ \E k \in 1..MaxConns : AcceptConnection(k)
    \/ \E k \in 1..MaxConns, c \in Peers : OpenEv(k, c)
    \/ \E k \in 1..MaxConns, c \in Peers : CloseEv(k, c)
    \/ \E c \in Peers : Disconnect(c)

SpecDial == InitPaired /\ [][NextDial]_vars

\* The pair after both users have left the session: no client has a main
\* connection, the identities stay registered.
InitParted ==
    /\ status = [c \in Peers |-> "DISCONNECTED"]
    /\ messages = [c \in Peers |-> <<INITIAL_GREETING>>]
    /\ partnerTyping = [c \in Peers |-> FALSE]
    /\ partnerRecording = [c \in Peers |-> FALSE]
    /\ partnerProfile = [c \in Peers |-> "null"]
    /\ remoteVanishMode = [c \in Peers |-> "null"]
    /\ error = [c \in Peers |-> "null"]
    /\ incomingDirectMessage = [c \in Peers |-> <<>>]
    /\ incomingReaction = [c \in Peers |-> <<>>]
    /\ incomingFriendRequest = [c \in Peers |-> <<>>]
    /\ friends = [c \in Peers |-> <<>>]
    /\ recents = [c \in Peers |-> <<>>]
    /\ routed = [c \in Peers |-> "none"]
    /\ peerRef = [c \in Peers |-> "open"]
    /\ peerCap = [c \in Peers |-> "IDLE"]
    /\ pendingJoins = [c \in Peers |-> <<>>]
    /\ mainConnRef = [c \in Peers |-> NoConn]
    /\ directConnsRef = [c \in Peers |-> [p \in Peers |-> NoConn]]
    /\ channelRef = [c \in Peers |-> NoChan]
    /\ isMatchmakerRef = [c \in Peers |-> FALSE]
    /\ connectionTimeoutRef = [c \in Peers |-> "null"]
    /\ typingTimeoutRef = [c \in Peers |-> "null"]
    /\ recordingTimeoutRef = [c \in Peers |-> "null"]
    /\ conns = << [from |-> "B", to |-> "A", type |-> "random", dst |-> "closed",
                   ast |-> "closed", dcap |-> "IDLE", acap |-> "IDLE",
                   dout |-> <<ProfilePayload("B")>>, aout |-> <<ProfilePayload("A")>>,
                   fr |-> FALSE] >>
    /\ chans = <<[LobbyChan("A") EXCEPT !.st = "removed"],
                 [LobbyChan("B") EXCEPT !.st = "removed"]>>
    /\ presence = [c \in Peers |-> NoPresence]
    /\ clock = 5

\* Scenario C: A's user issues the direct-dial operations while no client has a
\* main connection.
NextDirectOpen ==
    \/ \E p \in Peers : CallPeer("A", p, FALSE)
    \/ \E p \in Peers : SendDirectMessage("A", p, "t1", "m1")
    \/ \E p \in Peers : SendDirectFriendRequest("A", p)
    \/ \E k \in 1..MaxConns : AcceptConnection(k)
    \/ \E k \in 1..MaxConns, c \in Peers : OpenEv(k, c)

SpecDirectOpen == InitParted /\ [][NextDirectOpen]_vars

\* Direct connections ending beside the session: A calls B, and any connection
\* may be lost by the transport or be told to disconnect by the far end.
NextClose ==
    \/ \E p \in Peers : CallPeer("A", p, FALSE)
    \/ \E k \in 1..MaxConns : AcceptConnection(k)
    \/ \E k \in 1..MaxConns, c \in Peers : OpenEv(k, c)
    \/ \E k \in 1..MaxConns, c \in Peers : CloseEv(k, c)
    \/ \E k \in 1..MaxConns : ConnDrop(k)
    \/ \E k \in 1..MaxConns, c \in Peers : DataDisconnect(k, c)

SpecClose == InitPaired /\ [][NextClose]_vars

\* Scenario A after B's first snapshot: B has dialed A, the safety timer of the
\* dial is armed and B has republished itself as busy.
InitDialed ==
    /\ status = [c \in Peers |-> "WAITING"]
    /\ messages = [c \in Peers |-> <<>>]
    /\ partnerTyping = [c \in Peers |-> FALSE]
    /\ partnerRecording = [c \in Peers |-> FALSE]
    /\ partnerProfile = [c \in Peers |-> "null"]
    /\ remoteVanishMode = [c \in Peers |-> "null"]
    /\ error = [c \in Peers |-> "null"]
    /\ incomingDirectMessage = [c \in Peers |-> <<>>]
    /\ incomingReaction = [c \in Peers |-> <<>>]
    /\ incomingFriendRequest = [c \in Peers |-> <<>>]
    /\ friends = [c \in Peers |-> <<>>]
    /\ recents = [c \in Peers |-> <<>>]
    /\ routed = [c \in Peers |-> "none"]
    /\ peerRef = [c \in Peers |-> "open"]
    /\ peerCap = [c \in Peers |-> "IDLE"]
    /\ pendingJoins = [c \in Peers |-> <<>>]
    /\ mainConnRef = [c \in Peers |-> IF c = "B" THEN 1 ELSE NoConn]
    /\ directConnsRef = [c \in Peers |-> [p \in Peers |-> NoConn]]
    /\ channelRef = [c \in Peers |-> IF c = "A" THEN 1 ELSE 2]
    /\ isMatchmakerRef = [c \in Peers |-> FALSE]
    /\ connectionTimeoutRef = [c \in Peers |-> IF c = "B" THEN "armed" ELSE "null"]
    /\ typingTimeoutRef = [c \in Peers |-> "null"]
    /\ recordingTimeoutRef = [c \in Peers |-> "null"]
    /\ conns = <<NewConn("B", "A", "random", "IDLE")>>
    /\ chans = <<LobbyChan("A"), LobbyChan("B")>>
    /\ presence = [c \in Peers |->
                     IF c = "A" THEN [status |-> "waiting", timestamp |-> 1]
                     ELSE [status |-> "busy", timestamp |-> 3]]
    /\ clock = 4

\* Sessions around one dial: both users may leave and search again, the dial
\* is delivered, opens, is lost or is ended by a 'disconnect' payload.
NextSession ==
    \/ \E c \in Peers : Connect(c)
    \/ \E c \in Peers : Disconnect(c)
    \/ \E ch \in 1..MaxChans : Subscribed(ch)
    \/ \E ch \in 1..MaxChans : TrackDone(ch)
    \/ \E c \in Peers : TimerFire(c)
    \/ \E k \in 1..MaxConns : AcceptConnection(k)
    \/ \E k \in 1..MaxConns, c \in Peers : OpenEv(k, c)
    \/ \E k \in 1..MaxConns, c \in Peers : CloseEv(k, c)
    \/ \E k \in 1..MaxConns : ConnDrop(k)
    \/ \E k \in 1..MaxConns, c \in Peers : DataDisconnect(k, c)

SpecSession == InitDialed /\ [][NextSession]_vars

\* The dialer's session and its teardown: the dial is delivered and opens or
\* times out, the partner's indicator payloads arrive, the indicator timers
\* run, the dialer's user writes, reacts and edits, and leaves.
NextTeardown ==
    \/ \E c \in Peers : TimerFire(c)
    \/ \E k \in 1..MaxConns : AcceptConnection(k)
    \/ \E k \in 1..MaxConns, c \in Peers : OpenEv(k, c)
    \/ \E k \in 1..MaxConns, c \in Peers : CloseEv(k, c)
    \/ \E k \in 1..MaxConns,
          d \in {PeerData(type, "none", b, "none", "none", "none") :
                    type \in {"typing", "recording"}, b \in BOOLEAN} :
          HandleIncomingData(k, "B", d)
    \/ TypingTimeout("B")
    \/ RecordingTimeout("B")
    \/ Disconnect("B")
    \/ SendMessage("B", "t1", "m1")
    \/ SendReaction("B", "m1", "e1")
    \/ EditMessage("B", "m1", "t2")

SpecTeardown == InitDialed /\ [][NextTeardown]_vars

\* setTimeout(..., 4000) at lines 228 and 233: an armed timer runs
SpecTeardownFair ==
    SpecTeardown /\ WF_vars(TypingTimeout("B")) /\ WF_vars(RecordingTimeout("B"))

\* Matchmaking with a failing identity: Scenario A where the transport may also
\* report a fatal error of either identity.
NextErrors ==
    \/ \E ch \in 1..MaxChans : Sync(ch)
    \/ \E c \in Peers : TimerFire(c)
    \/ \E k \in 1..MaxConns : AcceptConnection(k)
    \/ \E k \in 1..MaxConns : PeerUnavailable(k)
    \/ \E k \in 1..MaxConns, c \in Peers : OpenEv(k, c)
    \/ \E c \in Peers, type \in PeerErrorTypes : PeerFatal(c, type)

SpecErrors == InitWaiting /\ [][NextErrors]_vars

\* The main chat of A: A's user writes, reacts and edits, the partner's
\* messages, reactions and edits arrive.
NextReact ==
    \/ \E id \in MsgIds : SendMessage("A", "t1", id)
    \/ \E id \in MsgIds, e \in Emojis : SendReaction("A", id, e)
    \/ \E k \in 1..MaxConns,
          d \in {PeerData("message", "t1", FALSE, "text", id, "none") : id \in MsgIds}
                \cup {PeerData("reaction", e, FALSE, "none", "none", id) :
                        e \in Emojis, id \in MsgIds} :
          HandleIncomingData(k, "A", d)

SpecReact == InitPaired /\ [][NextReact]_vars

EditPayloads ==
    {PeerData("edit_message", "t2", FALSE, "none", "none", id) : id \in MsgIds \cup {"none"}}

NextEdit ==
    \/ \E id \in MsgIds : SendMessage("A", "t1", id)
    \/ \E id \in MsgIds : EditMessage("A", id, "t2")
    \/ \E k \in 1..MaxConns,
          d \in {PeerData("message", "t1", FALSE, dt, id, "none") :
                    dt \in {"text", "image"}, id \in MsgIds} \cup EditPayloads :
          HandleIncomingData(k, "A", d)

SpecEdit == InitPaired /\ [][NextEdit]_vars

\* The router of A beside a direct connection: A calls B, and payloads of known
\* and unknown types arrive on the main and on the direct connection.
UnknownPayloads ==
    {PeerData(type, "B", TRUE, "text", "m1", "m1") : type \in {"ping", "profile_update"}}

NextRouter ==
    \/ CallPeer("A", "B", FALSE)
    \/ \E k \in 1..MaxConns : AcceptConnection(k)
    \/ \E k \in 1..MaxConns, c \in Peers : OpenEv(k, c)
    \/ \E k \in 1..MaxConns,
          d \in UnknownPayloads \cup
                {PeerData("message", "t1", FALSE, "text", "m1", "none"),
                 PeerData("typing", "none", TRUE, "none", "none", "none"),
                 PeerData("profile", "B", FALSE, "none", "none", "none")} :
          HandleIncomingData(k, "A", d)
    \/ TypingTimeout("A")

SpecRouter == InitPaired /\ [][NextRouter]_vars

\* conn.on('data'), line 309: a payload the partner handed to conn.send on
\* connection k is delivered to client c
Deliver(k, c) ==
    /\ k \in ConnIds
    /\ c \in {conns[k].from, conns[k].to}
    /\ \E i \in 1..Len(EpOut(k, ConnPeer(k, c))) :
          HandleIncomingData(k, c, EpOut(k, ConnPeer(k, c))[i])

\* The main chat of both clients: each user writes, and what a client has sent
\* on the main connection is delivered to the other.
NextExchange ==
    \/ \E c \in Peers, t \in Texts, id \in MsgIds : SendMessage(c, t, id)
    \/ \E k \in 1..MaxConns, c \in Peers : Deliver(k, c)

SpecExchange == InitPaired /\ [][NextExchange]_vars

\* The rematch: A and B were paired and both users pressed "next", so each
\* connect() ran while the mode was connected and the closures of the new
\* lobby channels carry that mode.  The state is the one InitPaired reaches by
\* connect() of both, both subscriptions, both tracks and the close events of
\* connection 1; the two removed channels of the first round are left out.
InitRematch ==
    /\ status = [c \in Peers |-> "WAITING"]
    /\ messages = [c \in Peers |-> <<>>]
    /\ partnerTyping = [c \in Peers |-> FALSE]
    /\ partnerRecording = [c \in Peers |-> FALSE]
    /\ partnerProfile = [c \in Peers |-> "null"]
    /\ remoteVanishMode = [c \in Peers |-> "null"]
    /\ error = [c \in Peers |-> "null"]
    /\ incomingDirectMessage = [c \in Peers |-> <<>>]
    /\ incomingReaction = [c \in Peers |-> <<>>]
    /\ incomingFriendRequest = [c \in Peers |-> <<>>]
    /\ friends = [c \in Peers |-> <<>>]
    /\ recents = [c \in Peers |-> <<>>]
    /\ routed = [c \in Peers |-> "none"]
    /\ peerRef = [c \in Peers |-> "open"]
    /\ peerCap = [c \in Peers |-> "IDLE"]
    /\ pendingJoins = [c \in Peers |-> <<>>]
    /\ mainConnRef = [c \in Peers |-> NoConn]
    /\ directConnsRef = [c \in Peers |-> [p \in Peers |-> NoConn]]
    /\ channelRef = [c \in Peers |-> IF c = "A" THEN 1 ELSE 2]
    /\ isMatchmakerRef = [c \in Peers |-> FALSE]
    /\ connectionTimeoutRef = [c \in Peers |-> "null"]
    /\ typingTimeoutRef = [c \in Peers |-> "null"]
    /\ recordingTimeoutRef = [c \in Peers |-> "null"]
    /\ conns = << [from |-> "B", to |-> "A", type |-> "random", dst |-> "closed",
                   ast |-> "closed", dcap |-> "IDLE", acap |-> "IDLE",
                   dout |-> <<ProfilePayload("B")>>, aout |-> <<ProfilePayload("A")>>,
                   fr |-> FALSE] >>
    /\ chans = << [owner |-> "A", cap |-> "CONNECTED", st |-> "subscribed", track |-> "done"],
                  [owner |-> "B", cap |-> "CONNECTED", st |-> "subscribed", track |-> "done"] >>
    /\ presence = [c \in Peers |-> [status |-> "waiting",
                                    timestamp |-> IF c = "A" THEN 5 ELSE 6]]
    /\ clock = 7

NextRematch ==
    \/ \E ch \in 1..MaxChans : Sync(ch)
    \/ \E c \in Peers : TimerFire(c)
    \/ \E k \in 1..MaxConns : AcceptConnection(k)
    \/ \E k \in 1..MaxConns, c \in Peers : OpenEv(k, c)
    \/ \E k \in 1..MaxConns, c \in Peers : CloseEv(k, c)
    \/ \E k \in 1..MaxConns, c \in Peers : DataDisconnect(k, c)

SpecRematch == InitRematch /\ [][NextRematch]_vars

\* Friendship: B's requests and accepts reach A on the main connection or on a
\* direct connection B has dialed, and A's user accepts the pending request.
FriendPayloads ==
    {PeerData(type, profile, FALSE, "none", "none", "none") :
        type \in {"friend_request", "friend_accept"}, profile \in Profiles}

NextFriends ==
    \/ CallPeer("B", "A", FALSE)
    \/ \E k \in 1..MaxConns : AcceptConnection(k)
    \/ \E k \in 1..MaxConns, c \in Peers : OpenEv(k, c)
    \/ \E k \in 1..MaxConns, d \in FriendPayloads : HandleIncomingData(k, "A", d)
    \/ AcceptFriendRequest("A")

SpecFriends == InitPaired /\ [][NextFriends]_vars

\* The recent peers: A's store holds the list earlier sessions left, up to the
\* limit, under usernames u1..u20; A is paired with B as in InitPaired.  Profile
\* announcements reach A under a stored or a new username, and A's user calls B
\* with B's profile.
InitRecent ==
    /\ status = [c \in Peers |-> "CONNECTED"]
    /\ messages = [c \in Peers |-> <<INITIAL_GREETING>>]
    /\ partnerTyping = [c \in Peers |-> FALSE]
    /\ partnerRecording = [c \in Peers |-> FALSE]
    /\ partnerProfile = [c \in Peers |-> "null"]
    /\ remoteVanishMode = [c \in Peers |-> "null"]
    /\ error = [c \in Peers |-> "null"]
    /\ incomingDirectMessage = [c \in Peers |-> <<>>]
    /\ incomingReaction = [c \in Peers |-> <<>>]
    /\ incomingFriendRequest = [c \in Peers |-> <<>>]
    /\ friends = [c \in Peers |-> <<>>]
    /\ LET stored == <<"u1", "u2", "u3", "u4", "u5", "u6", "u7", "u8", "u9", "u10",
                       "u11", "u12", "u13", "u14", "u15", "u16", "u17", "u18", "u19", "u20">>
       IN \E n \in {0, RECENT_LIMIT - 1, RECENT_LIMIT} :
             recents = [c \in Peers |->
                 IF c = "A" THEN [i \in 1..n |-> [peerId |-> "B", profile |-> stored[i]]]
                 ELSE <<>>]
    /\ routed = [c \in Peers |-> "none"]
    /\ peerRef = [c \in Peers |-> "open"]
    /\ peerCap = [c \in Peers |-> "IDLE"]
    /\ pendingJoins = [c \in Peers |-> <<>>]
    /\ mainConnRef = [c \in Peers |-> 1]
    /\ directConnsRef = [c \in Peers |-> [p \in Peers |-> NoConn]]
    /\ channelRef = [c \in Peers |-> IF c = "A" THEN 1 ELSE 2]
    /\ isMatchmakerRef = [c \in Peers |-> FALSE]
    /\ connectionTimeoutRef = [c \in Peers |-> IF c = "A" THEN "null" ELSE "fired"]
    /\ typingTimeoutRef = [c \in Peers |-> "null"]
    /\ recordingTimeoutRef = [c \in Peers |-> "null"]
    /\ conns = << [from |-> "B", to |-> "A", type |-> "random", dst |-> "open",
                   ast |-> "open", dcap |-> "IDLE", acap |-> "IDLE",
                   dout |-> <<ProfilePayload("B")>>, aout |-> <<ProfilePayload("A")>>,
                   fr |-> FALSE] >>
    /\ chans = <<LobbyChan("A"), LobbyChan("B")>>
    /\ presence = [c \in Peers |-> [status |-> "busy",
                                    timestamp |-> IF c = "A" THEN 4 ELSE 3]]
    /\ clock = 5

RecentNames == {"B", "u1", "u20", "u21"}

NextRecent ==
    \/ CallPeer("A", "B", TRUE)
    \/ \E k \in 1..MaxConns : AcceptConnection(k)
    \/ \E k \in 1..MaxConns, c \in Peers : OpenEv(k, c)
    \/ \E k \in 1..MaxConns, name \in RecentNames :
          HandleIncomingData(k, "A", PeerData("profile", name, FALSE, "none", "none", "none"))

SpecRecent == InitRecent /\ [][NextRecent]_vars

\* The far end leaves: A and B are paired, A's indicators reach B, A's user
\* disconnects (with or without its 'disconnect' payload arriving) or the
\* transport loses the connection, and B's user goes on using the main chat.
NextRemoteClose ==
    \/ Disconnect("A")
    \/ \E k \in 1..MaxConns, type \in {"typing", "recording"} :
          HandleIncomingData(k, "B", PeerData(type, "none", TRUE, "none", "none", "none"))
    \/ TypingTimeout("B")
    \/ RecordingTimeout("B")
    \/ \E k \in 1..MaxConns : DataDisconnect(k, "B")
    \/ \E k \in 1..MaxConns : ConnDrop(k)
    \/ \E k \in 1..MaxConns, c \in Peers : CloseEv(k, c)
    \/ SendMessage("B", "t1", "m1")
    \/ SendReaction("B", "m1", "e1")
    \/ EditMessage("B", "m1", "t2")

SpecRemoteClose == InitPaired /\ [][NextRemoteClose]_vars

\* Entering and leaving the lobby from the start: A's user calls connect() and
\* disconnect() in any order around the registration of A's identity.
NextLobby ==
    \/ Connect("A")
    \/ Disconnect("A")
    \/ PeerOpen("A")
    \/ \E ch \in 1..MaxChans : Subscribed(ch)
    \/ \E ch \in 1..MaxChans : TrackDone(ch)

SpecLobby == Init /\ [][NextLobby]_vars

\* Matchmaking with a chat going on: the two waiters of InitWaiting are matched
\* as in NextA, and A's user sends a message.
NextMatchChat ==
    \/ \E ch \in 1..MaxChans : Sync(ch)
    \/ \E c \in Peers : TimerFire(c)
    \/ \E k \in 1..MaxConns : AcceptConnection(k)
    \/ \E k \in 1..MaxConns : PeerUnavailable(k)
    \/ \E k \in 1..MaxConns, c \in Peers : OpenEv(k, c)
    \/ SendMessage("A", "t1", "m1")

SpecMatchChat == InitWaiting /\ [][NextMatchChat]_vars

\* The direct connection beside a main session: A calls B, the partner's message
\* arrives on the main connection, and one payload of every type arrives on
\* the direct connection.
DirectPayloads ==
    {PeerData("message", "t1", FALSE, "text", "m1", "none"),
     PeerData("seen", "none", FALSE, "none", "none", "m1"),
     PeerData("reaction", "e1", FALSE, "none", "none", "m1"),
     PeerData("edit_message", "t2", FALSE, "none", "none", "none"),
     PeerData("typing", "none", TRUE, "none", "none", "none"),
     PeerData("recording", "none", TRUE, "none", "none", "none"),
     PeerData("profile", "A", FALSE, "none", "none", "none"),
     PeerData("vanish_mode", "none", TRUE, "none", "none", "none"),
     PeerData("friend_request", "B", FALSE, "none", "none", "none"),
     PeerData("friend_accept", "B", FALSE, "none", "none", "none"),
     PeerData("disconnect", "none", FALSE, "none", "none", "none"),
     PeerData("profile_update", "A", FALSE, "none", "none", "none")}

NextDirectData ==
    \/ CallPeer("A", "B", FALSE)
    \/ \E k \in 1..MaxConns : AcceptConnection(k)
    \/ \E k \in 1..MaxConns : OpenEv(k, "A")
    \/ HandleIncomingData(mainConnRef["A"], "A",
                          PeerData("message", "t1", FALSE, "text", "m1", "none"))
    \/ \E k \in 1..MaxConns, d \in DirectPayloads :
          k # mainConnRef["A"] /\ HandleIncomingData(k, "A", d)

SpecDirectData == InitPaired /\ [][NextDirectData]_vars

\* ------------------------------------------------------------------ properties
MainOpen(c) == mainConnRef[c] # NoConn /\ ConnOpen(mainConnRef[c], c)

\* C1 (P1, single main slot): when an inbound connection tagged 'random' is
\* attached while the main slot holds an open connection, the new connection is
\* closed and the main slot still holds the first one.
SingleMainSlot ==
    [][\A k \in ConnIds :
          (/\ conns[k].type = "random"
           /\ MainOpen(conns[k].to)
           /\ AcceptConnection(k))
          => /\ mainConnRef'[conns[k].to] = mainConnRef[conns[k].to]
             /\ conns'[k].ast \in {"closing", "closed"}]_vars

\* a matchmaking dial of c that has neither opened nor failed, inside its
\* safety window
DialInFlight(c) ==
    /\ connectionTimeoutRef[c] = "armed"
    /\ \E k \in ConnIds :
          /\ conns[k].from = c
          /\ conns[k].type = "random"
          /\ conns[k].dst = "pending"
          /\ conns[k].ast \in {"inflight", "pending"}

\* C2 (matchmaker guard): while a matchmaking dial is in flight, no presence
\* snapshot makes the same client dial again.
MatchmakerGuard ==
    [][\A ch \in ChanIds :
          (DialInFlight(chans[ch].owner) /\ Sync(ch)) => Len(conns') = Len(conns)]_vars

\* the safety window of c's last matchmaking dial has expired and the main
\* connection is not open
TimedOut(c) == connectionTimeoutRef[c] = "fired" /\ ~MainOpen(c)

\* C3 (P3, matchmaker safety): after a matchmaking dial that did not open within
\* the safety window, returned nothing, threw, or hit an unavailable peer, the
\* matchmaker flag is false, and a snapshot with a waiting candidate dials again.
MatchmakerSafety ==
    /\ [](\A c \in Peers : TimedOut(c) =>
            /\ ~isMatchmakerRef[c]
            /\ \A ch \in ChanIds :
                  (/\ chans[ch].owner = c
                   /\ chans[ch].st = "subscribed"
                   /\ HasWaiter
                   /\ OldestWaiter # c) => SyncDials(ch))
    /\ [][/\ \A ch \in ChanIds :
                (SyncDials(ch) /\ Sync(ch) /\ Len(conns') = Len(conns))
                => ~isMatchmakerRef'[chans[ch].owner]
          /\ \A k \in ConnIds :
                PeerUnavailable(k) => ~isMatchmakerRef'[conns[k].from]]_vars

\* C3 witness: a dial of c has timed out unopened while a candidate is waiting
TimedOutWithCandidate ==
    \E c \in Peers :
        /\ TimedOut(c)
        /\ channelRef[c] # NoChan
        /\ chans[channelRef[c]].st = "subscribed"
        /\ HasWaiter
        /\ OldestWaiter # c

\* C4 (Scenario D): once the safety timer has fired on a dial that never opened,
\* the matchmaker flag is false and the main slot no longer holds the half-open
\* connection.
ScenarioDEvicted ==
    \A c \in Peers :
        connectionTimeoutRef[c] = "fired" =>
            /\ ~isMatchmakerRef[c]
            /\ ~(mainConnRef[c] # NoConn /\ EpState(mainConnRef[c], c) = "pending")

\* C5 (Scenario A, election): with A published before B, at most one
\* matchmaking dial is ever made, and it goes from B to A.
ScenarioAOneDial ==
    /\ Cardinality({k \in ConnIds : conns[k].type = "random"}) <= 1
    /\ \A k \in ConnIds :
          conns[k].type = "random" => conns[k].from = "B" /\ conns[k].to = "A"

\* both clients are connected, each with the other at the far end of its main
\* connection
BothConnected ==
    \A c \in Peers :
        /\ status[c] = "CONNECTED"
        /\ mainConnRef[c] # NoConn
        /\ ConnPeer(mainConnRef[c], c) = Other(c)

\* C6 (Scenario A, pairing liveness): two waiting clients and a transport that
\* opens every dialed connection: eventually both are connected to each other.
PairingLiveness == <>BothConnected

\* C6 witness: the pair is connected
PairConnected == BothConnected /\ \A c \in Peers : MainOpen(c)

\* the connection the direct map of c holds for p was dialed by c and has
\* neither opened nor closed
FirstDialPending(c, p) ==
    /\ directConnsRef[c][p] # NoConn
    /\ conns[directConnsRef[c][p]].from = c
    /\ conns[directConnsRef[c][p]].dst = "pending"
    /\ conns[directConnsRef[c][p]].ast \in {"inflight", "pending"}

DirectDialOp(c, p) ==
    \/ \E known \in BOOLEAN : CallPeer(c, p, known)
    \/ \E t \in Texts, id \in MsgIds : SendDirectMessage(c, p, t, id)
    \/ SendDirectFriendRequest(c, p)

\* C7 (P2, direct idempotence): a direct-dial operation to a peer whose first
\* connection is still pending creates no connection and leaves the map entry.
DirectIdempotence ==
    [][\A c, p \in Peers :
          (FirstDialPending(c, p) /\ DirectDialOp(c, p))
          => /\ Len(conns') = Len(conns)
             /\ directConnsRef'[c][p] = directConnsRef[c][p]]_vars

\* C8 (Scenario C): a connection dialed as 'direct' is entered in the direct map
\* of the dialer and of the accepter under the other's peer id, is never in a
\* main slot, and its open event leaves the session mode alone.
DirectNeverMain ==
    /\ [](\A k \in ConnIds : \A c \in Peers :
            conns[k].type = "direct" => mainConnRef[c] # k)
    /\ [][/\ \A c, p \in Peers :
                (DirectDialOp(c, p) /\ Len(conns') > Len(conns))
                => /\ directConnsRef'[c][p] = Len(conns')
                   /\ mainConnRef' = mainConnRef
          /\ \A k \in ConnIds :
                (conns[k].type = "direct" /\ AcceptConnection(k))
                => /\ directConnsRef'[conns[k].to][conns[k].from] = k
                   /\ mainConnRef' = mainConnRef
          /\ \A k \in ConnIds : \A c \in Peers :
                (conns[k].type = "direct" /\ OpenEv(k, c)) => status' = status]_vars

\* C8 witness: a direct connection open at both ends, in both direct maps, while
\* no client has a main connection
DirectOpenNoMain ==
    \E k \in ConnIds :
        /\ conns[k].type = "direct"
        /\ conns[k].dst = "open"
        /\ conns[k].ast = "open"
        /\ directConnsRef[conns[k].from][conns[k].to] = k
        /\ directConnsRef[conns[k].to][conns[k].from] = k
        /\ \A c \in Peers : mainConnRef[c] = NoConn

\* C9 (P6, first half): disconnect() closes no direct connection and leaves the
\* direct map as it was.
DisconnectKeepsDirect ==
    [][\A c \in Peers :
          Disconnect(c)
          => /\ directConnsRef'[c] = directConnsRef[c]
             /\ \A k \in ConnIds : conns[k].type = "direct" => conns'[k] = conns[k]]_vars

\* C10 (P6, second half): a close event or a 'disconnect' payload on a direct
\* connection removes that peer from the direct map of the client and changes
\* neither the session mode, the main slot nor the main history.
DirectCloseFrame ==
    [][\A k \in ConnIds : \A c \in Peers :
          (conns[k].type = "direct" /\ (CloseEv(k, c) \/ DataDisconnect(k, c)))
          => /\ status' = status
             /\ mainConnRef' = mainConnRef
             /\ messages' = messages
             /\ directConnsRef' =
                    [directConnsRef EXCEPT ![c][ConnPeer(k, c)] = NoConn]]_vars

\* C10 witness: a direct connection of a connected client has closed and its
\* peer is gone from the direct map
DirectClosedWhileConnected ==
    \E k \in ConnIds : \E c \in Peers :
        /\ conns[k].type = "direct"
        /\ c \in {conns[k].from, conns[k].to}
        /\ EpState(k, c) = "closed"
        /\ directConnsRef[c][ConnPeer(k, c)] = NoConn
        /\ status[c] = "CONNECTED"
        /\ MainOpen(c)

ReactionDedup ==
    \A c \in Peers : \A i \in 1..Len(messages[c]) :
        \A j, l \in 1..Len(messages[c][i].reactions) :
            messages[c][i].reactions[j] = messages[c][i].reactions[l] => j = l

Edited(m, text) == [m EXCEPT !.text = text, !.isEdited = TRUE]

\* an inbound 'edit_message' carrying an id is handled on the main connection
RemoteEditStep(k, c, d) ==
    /\ d.type = "edit_message"
    /\ d.messageId # "none"
    /\ k = mainConnRef[c]
    /\ HandleIncomingData(k, c, d)

\* C13 (P5, message id stability), as amended: an edit carrying a message id
\* changes no id; the local edit sets text and isEdited on every message with
\* that id; the inbound edit does so on the stranger's text messages with that
\* id; every other message is unchanged.
EditStable ==
    [][/\ \A c \in Peers : \A id \in MsgIds : \A t \in Texts :
             EditMessage(c, id, t)
             => /\ Len(messages'[c]) = Len(messages[c])
                /\ \A i \in 1..Len(messages[c]) : messages'[c][i].id = messages[c][i].id
                /\ \A i \in 1..Len(messages[c]) :
                      messages'[c][i] =
                          IF messages[c][i].id = id THEN Edited(messages[c][i], t)
                          ELSE messages[c][i]
       /\ \A c \in Peers : \A k \in ConnIds : \A d \in EditPayloads :
             RemoteEditStep(k, c, d)
             => /\ Len(messages'[c]) = Len(messages[c])
                /\ \A i \in 1..Len(messages[c]) : messages'[c][i].id = messages[c][i].id
                /\ \A i \in 1..Len(messages[c]) :
                      messages'[c][i] =
                          IF /\ messages[c][i].id = d.messageId
                             /\ messages[c][i].sender = "stranger"
                             /\ messages[c][i].type = "text"
                          THEN Edited(messages[c][i], d.payload)
                          ELSE messages[c][i]]_vars

\* C13 as stated: the inbound edit sets text and isEdited on the message with
\* that id, whoever sent it and whatever its type.
EditAppliesToId ==
    [][\A c \in Peers : \A k \in ConnIds : \A d \in EditPayloads :
          RemoteEditStep(k, c, d)
          => \A i \in 1..Len(messages[c]) :
                messages[c][i].id = d.messageId
                => messages'[c][i] = Edited(messages[c][i], d.payload)]_vars

\* C13 witness: an inbound edit has changed a stranger's text message
RemoteEditApplied ==
    \E c \in Peers : \E i \in 1..Len(messages[c]) :
        /\ routed[c] = "edit_message"
        /\ messages[c][i].sender = "stranger"
        /\ messages[c][i].isEdited
        /\ messages[c][i].text = "t2"

\* C14 (main close): a close event of the connection held in the main slot,
\* while the mode is connected, sets the mode to disconnected and appends one
\* 'stranger disconnected' message.
MainCloseDisconnects ==
    [][\A c \in Peers : \A k \in ConnIds :
          (k = mainConnRef[c] /\ status[c] = "CONNECTED" /\ CloseEv(k, c))
          => /\ status'[c] = "DISCONNECTED"
             /\ messages'[c] = Append(messages[c], STRANGER_DISCONNECTED_MSG)]_vars

\* C15 (eviction): between handlers the main slot and the direct map hold no
\* connection whose close event has been handled.
RegistryLive ==
    \A c \in Peers :
        /\ mainConnRef[c] # NoConn => EpState(mainConnRef[c], c) \in {"pending", "open", "closing", "lost"}
        /\ \A p \in Peers :
              directConnsRef[c][p] # NoConn
              => EpState(directConnsRef[c][p], c) \in {"pending", "open", "closing", "lost"}

\* C16: the mode leaves disconnected only in a connect() call.
DisconnectedUntilConnect ==
    [][\A c \in Peers :
          (status[c] = "DISCONNECTED" /\ status'[c] # "DISCONNECTED") => Connect(c)]_vars

\* C17: the mode becomes connected only in the open handler of the connection
\* the main slot holds.
ConnectedOnlyByMainOpen ==
    [][\A c \in Peers :
          (status[c] # "CONNECTED" /\ status'[c] = "CONNECTED")
          => \E k \in ConnIds : k = mainConnRef[c] /\ OpenEv(k, c)]_vars

\* C17 witness: a client connected by the open event of its main connection
ConnectedByOpen ==
    \E c \in Peers :
        /\ status[c] = "CONNECTED"
        /\ mainConnRef[c] # NoConn
        /\ ConnOpen(mainConnRef[c], c)

\* C18 (fatal transport error): a fatal error of the identity sets the mode to
\* error and tears the identity down.
FatalErrorTearsDown ==
    [][\A c \in Peers : \A type \in PeerErrorTypes :
          PeerFatal(c, type) => status'[c] = "ERROR" /\ peerRef'[c] = "none"]_vars

\* a matchmaking dial of c, still in its main slot, whose target was unavailable
DialLost(c) ==
    /\ mainConnRef[c] # NoConn
    /\ conns[mainConnRef[c]].from = c
    /\ conns[mainConnRef[c]].type = "random"
    /\ conns[mainConnRef[c]].ast = "lost"

\* C19 (unavailable peer): peer-unavailable leaves the mode alone and the
\* matchmaker flag false, the mode is never error or idle, and afterwards a
\* snapshot with a waiting candidate dials again.
UnavailableRecovers ==
    /\ [](\A c \in Peers :
            /\ status[c] \notin {"ERROR", "IDLE"}
            /\ DialLost(c) =>
                  /\ ~isMatchmakerRef[c]
                  /\ \A ch \in ChanIds :
                        (/\ chans[ch].owner = c
                         /\ chans[ch].st = "subscribed"
                         /\ HasWaiter
                         /\ OldestWaiter # c) => SyncDials(ch))
    /\ [][\A k \in ConnIds :
             PeerUnavailable(k)
             => status' = status /\ ~isMatchmakerRef'[conns[k].from]]_vars

\* C19 witness: a dial whose target was unavailable, with a candidate waiting
UnavailableWithCandidate ==
    \E c \in Peers :
        /\ DialLost(c)
        /\ status[c] = "WAITING"
        /\ channelRef[c] # NoChan
        /\ chans[channelRef[c]].st = "subscribed"
        /\ HasWaiter
        /\ OldestWaiter # c

\* C20 (unknown payload types): a payload whose type is none of the known tags
\* changes nothing of the session and sends nothing, on the main and on a
\* direct connection.
UnknownPayloadIgnored ==
    [][\A c \in Peers : \A k \in ConnIds : \A d \in UnknownPayloads :
          HandleIncomingData(k, c, d)
          => UNCHANGED <<hookVars, viewVars, socialVars, peerVars, connRefs,
                         lobbyVars, isMatchmakerRef, timerVars, conns>>]_vars

\* C20 witness: an unknown payload was handled on an open direct connection of
\* a connected client whose history holds a partner's message
UnknownHandledOnDirect ==
    \E k \in ConnIds :
        /\ conns[k].type = "direct"
        /\ ConnOpen(k, "A")
        /\ routed["A"] \in {"ping", "profile_update"}
        /\ status["A"] = "CONNECTED"
        /\ Len(messages["A"]) > 1

\* C21 (send guard): sendMessage, sendReaction and editMessage called while no
\* live main connection exists send nothing and leave the session state as it
\* was.
SendGuardNoOp ==
    [][\A c \in Peers :
          (/\ ~(mainConnRef[c] # NoConn /\ status[c] = "CONNECTED")
           /\ \E id \in MsgIds :
                 \/ \E t \in Texts : SendMessage(c, t, id) \/ EditMessage(c, id, t)
                 \/ \E e \in Emojis : SendReaction(c, id, e))
          => UNCHANGED <<hookVars, conns, sessVars, socialVars>>]_vars

\* C22 (router isolation): a payload of any type delivered on a connection that
\* is not in the main slot leaves the main history, the mode, the partner
\* profile, both indicators, the remote vanish preference and the main slot
\* unchanged.
RouterIsolation ==
    [][\A c \in Peers : \A k \in ConnIds : \A d \in DirectPayloads :
          (k # mainConnRef[c] /\ routed'[c] = d.type /\ HandleIncomingData(k, c, d))
          => UNCHANGED <<messages, status, partnerProfile, partnerTyping,
                         partnerRecording, remoteVanishMode, mainConnRef>>]_vars

\* C22 witness: A is in a main session whose history holds the partner's
\* message; a message, a profile and last an edit without id were delivered on
\* A's direct connection, and the partner's message is not edited
DirectPayloadBesideMain ==
    /\ incomingDirectMessage["A"] # <<>>
    /\ recents["A"] # <<>>
    /\ partnerProfile["A"] = "null"
    /\ routed["A"] = "edit_message"
    /\ status["A"] = "CONNECTED"
    /\ mainConnRef["A"] # NoConn
    /\ Len(messages["A"]) = 2
    /\ ~messages["A"][2].isEdited

\* C23 (inbound message): a 'message' payload with an id on the main connection
\* appends one stranger message with that id at the end of the history, clears
\* both indicators and leaves neither indicator timer armed, and sends one
\* 'seen' payload with that id on the same connection and nothing else.
MessageAppendsAndAcks ==
    [][\A c \in Peers : \A k \in ConnIds : \A d \in Payloads :
          (/\ d.type = "message"
           /\ d.id # "none"
           /\ routed'[c] = "message"
           /\ k = mainConnRef[c]
           /\ HandleIncomingData(k, c, d))
          => /\ Len(messages'[c]) = Len(messages[c]) + 1
             /\ SubSeq(messages'[c], 1, Len(messages[c])) = messages[c]
             /\ messages'[c][Len(messages'[c])].id = d.id
             /\ messages'[c][Len(messages'[c])].sender = "stranger"
             /\ ~partnerTyping'[c] /\ ~partnerRecording'[c]
             /\ typingTimeoutRef'[c] # "armed" /\ recordingTimeoutRef'[c] # "armed"
             /\ conns' = Send(conns, k, c,
                    PeerData("seen", "none", FALSE, "none", "none", d.id))]_vars

\* C23 witness: A showed the typing indicator and then received message m1 on
\* its main connection; the last payload A sent on it is the receipt for m1
MessageAcked ==
    /\ routed["A"] = "message"
    /\ mainConnRef["A"] # NoConn
    /\ typingTimeoutRef["A"] = "dead"
    /\ Len(messages["A"]) = 2
    /\ messages["A"][2].id = "m1"
    /\ LET out == EpOut(mainConnRef["A"], "A") IN
           out # <<>> /\ out[Len(out)].type = "seen" /\ out[Len(out)].messageId = "m1"

\* C24 (seen receipts): a 'seen' payload on the main connection marks exactly
\* the messages whose id is the payload's messageId and changes nothing else;
\* a message of the user is marked seen only when the partner's history holds
\* the message received under that id.
SeenMarksById ==
    /\ [](\A c \in Peers : \A i \in 1..Len(messages[c]) :
             (messages[c][i].sender = "me" /\ messages[c][i].status = "seen")
             => \E j \in 1..Len(messages[Other(c)]) :
                   /\ messages[Other(c)][j].id = messages[c][i].id
                   /\ messages[Other(c)][j].sender = "stranger")
    /\ [][\A c \in Peers : \A k \in ConnIds : \A id \in MsgIds :
             (/\ routed'[c] = "seen"
              /\ k = mainConnRef[c]
              /\ HandleIncomingData(k, c,
                     PeerData("seen", "none", FALSE, "none", "none", id)))
             => /\ Len(messages'[c]) = Len(messages[c])
                /\ \A i \in 1..Len(messages[c]) :
                      messages'[c][i] =
                          IF messages[c][i].id = id
                          THEN [messages[c][i] EXCEPT !.status = "seen"]
                          ELSE messages[c][i]
                /\ UNCHANGED <<status, partnerTyping, partnerRecording, conns,
                               connRefs, timerVars, viewVars, socialVars>>]_vars

\* C24 witness: a message of A is marked seen after B's receipt was delivered
SeenAfterReceipt ==
    /\ routed["A"] = "seen"
    /\ \E i \in 1..Len(messages["A"]) :
          messages["A"][i].sender = "me" /\ messages["A"][i].status = "seen"

\* C25 (edit fallback): an 'edit_message' payload without messageId on the main
\* connection changes at most the most recent text message of the stranger and
\* no other message.
EditFallbackLatest ==
    [][\A c \in Peers : \A k \in ConnIds : \A d \in EditPayloads :
          (/\ d.messageId = "none"
           /\ routed'[c] = "edit_message"
           /\ k = mainConnRef[c]
           /\ HandleIncomingData(k, c, d))
          => /\ Len(messages'[c]) = Len(messages[c])
             /\ \A i \in 1..Len(messages[c]) :
                   messages'[c][i] # messages[c][i]
                   => /\ messages[c][i].sender = "stranger"
                      /\ messages[c][i].type = "text"
                      /\ \A j \in (i + 1)..Len(messages[c]) :
                            ~(/\ messages[c][j].sender = "stranger"
                              /\ messages[c][j].type = "text")]_vars

\* C26 (typing/recording debounce): a true signal on the main connection sets
\* the indicator and leaves exactly one timer armed, a false signal clears the
\* indicator and leaves no timer armed, an indicator that is set has its timer
\* armed, and a set indicator is eventually cleared.
IndicatorDebounce ==
    /\ [](\A c \in Peers :
            /\ typingTimeoutRef[c] # "stacked"
            /\ recordingTimeoutRef[c] # "stacked"
            /\ partnerTyping[c] => typingTimeoutRef[c] = "armed"
            /\ partnerRecording[c] => recordingTimeoutRef[c] = "armed")
    /\ [][\A c \in Peers : \A k \in ConnIds : \A b \in BOOLEAN :
             /\ (/\ k = mainConnRef[c]
                 /\ routed'[c] = "typing"
                 /\ HandleIncomingData(k, c,
                        PeerData("typing", "none", b, "none", "none", "none")))
                => /\ partnerTyping'[c] = b
                   /\ typingTimeoutRef'[c] = IF b THEN "armed" ELSE ClearedTimer(typingTimeoutRef[c])
                   /\ ~b => typingTimeoutRef'[c] \in {"null", "dead"}
             /\ (/\ k = mainConnRef[c]
                 /\ routed'[c] = "recording"
                 /\ HandleIncomingData(k, c,
                        PeerData("recording", "none", b, "none", "none", "none")))
                => /\ partnerRecording'[c] = b
                   /\ recordingTimeoutRef'[c] =
                          IF b THEN "armed" ELSE ClearedTimer(recordingTimeoutRef[c])
                   /\ ~b => recordingTimeoutRef'[c] \in {"null", "dead"}]_vars
    /\ \A c \in Peers : (partnerTyping[c] ~> ~partnerTyping[c])
    /\ \A c \in Peers : (partnerRecording[c] ~> ~partnerRecording[c])

\* C26 witness: B's typing indicator was set by the partner's signal and is
\* cleared again, its timer spent, while the session is still connected
IndicatorCleared ==
    /\ routed["B"] = "typing"
    /\ status["B"] = "CONNECTED"
    /\ ~partnerTyping["B"]
    /\ typingTimeoutRef["B"] = "dead"
    /\ recordingTimeoutRef["B"] = "armed"

\* C27 (profiles): a 'profile' or 'profile_update' payload records the peer in
\* the recent-peers store; on the main connection it also becomes the partner
\* profile, on a direct connection the partner profile is unchanged.
ProfileStored ==
    [][\A c \in Peers : \A k \in ConnIds : \A d \in Payloads \cup UnknownPayloads :
          (/\ d.type \in {"profile", "profile_update"}
           /\ routed'[c] = d.type
           /\ HandleIncomingData(k, c, d))
          => /\ recents'[c] = SaveToRecent(recents[c], d.payload, ConnPeer(k, c))
             /\ partnerProfile'[c] =
                    IF k = mainConnRef[c] THEN d.payload ELSE partnerProfile[c]]_vars

\* C28 (partner's disconnect): a 'disconnect' payload on the main connection
\* sets the mode to disconnected, appends one 'stranger disconnected' message,
\* closes the connection and empties the main slot; the close event of a
\* connection that is no longer in the main slot changes neither the history
\* nor the mode.
DisconnectOnce ==
    [][\A c \in Peers : \A k \in ConnIds :
          /\ (k = mainConnRef[c] /\ DataDisconnect(k, c))
             => /\ status'[c] = "DISCONNECTED"
                /\ messages'[c] = Append(messages[c], STRANGER_DISCONNECTED_MSG)
                /\ mainConnRef'[c] = NoConn
                /\ (IF conns[k].from = c THEN conns'[k].dst ELSE conns'[k].ast)
                       \in {"closing", "closed"}
          /\ (k # mainConnRef[c] /\ CloseEv(k, c))
             => status'[c] = status[c] /\ messages'[c] = messages[c]]_vars

CandidateSelection ==
    [][\A ch \in ChanIds :
          (Sync(ch) /\ Len(conns') = Len(conns) + 1) =>
              LET dialed == conns'[Len(conns')] IN
              /\ dialed.from = chans[ch].owner
              /\ dialed.to # chans[ch].owner
              /\ presence[dialed.to].status = "waiting"
              /\ \A q \in Peers :
                     presence[q].status = "waiting"
                         => presence[dialed.to].timestamp <= presence[q].timestamp]_vars

\* B, the younger waiter, has dialed A, the older one, whose record still says
\* waiting; B's own record has turned busy
OlderWaiterDialed ==
    \E k \in ConnIds :
        /\ conns[k].type = "random"
        /\ conns[k].from = "B" /\ conns[k].to = "A"
        /\ conns[k].ast = "inflight"
        /\ presence["A"].status = "waiting"
        /\ presence["B"].status = "busy"
        /\ presence["A"].timestamp < presence["B"].timestamp
        /\ \A j \in ConnIds : conns[j].from # "A"

PairingSymmetry ==
    \A x \in Peers :
        (/\ status[x] = "CONNECTED"
         /\ mainConnRef[x] # NoConn
         /\ ConnOpen(mainConnRef[x], x))
        => mainConnRef[ConnPeer(mainConnRef[x], x)] = mainConnRef[x]

\* C34 (mode of an open main connection): whenever the main slot holds an open
\* connection the mode is connected, and the completion of the awaited
\* 'waiting' publish does not take a connected client with an open main
\* connection back to waiting.
OpenMainIsConnected ==
    /\ [](\A c \in Peers : MainOpen(c) => status[c] = "CONNECTED")
    /\ [][\A ch \in ChanIds :
            (TrackDone(ch) /\ MainOpen(chans[ch].owner)
                /\ status[chans[ch].owner] = "CONNECTED")
            => status'[chans[ch].owner] = "CONNECTED"]_vars

\* C35 (no send after close): once the close event of a connection's endpoint
\* has occurred, the client sends nothing more on that connection.
NoSendAfterClose ==
    [][\A k \in ConnIds : \A c \in {conns[k].from, conns[k].to} :
          EpState(k, c) = "closed"
          => (IF IsDialer(k, c) THEN conns'[k].dout ELSE conns'[k].aout) = EpOut(k, c)]_vars

\* C36 (eviction): an entry of the direct map is removed only by the close
\* event or the 'disconnect' payload of the connection the entry holds.
EvictionOwnConnection ==
    [][\A c \in Peers : \A p \in Peers :
          (directConnsRef[c][p] # NoConn /\ directConnsRef'[c][p] = NoConn)
          => \/ CloseEv(directConnsRef[c][p], c)
             \/ DataDisconnect(directConnsRef[c][p], c)]_vars

\* C37 (indicators): in every state in which the mode is not connected, the
\* partner typing and partner recording indicators are both false.
IndicatorsOnlyConnected ==
    \A c \in Peers :
        status[c] # "CONNECTED" => ~partnerTyping[c] /\ ~partnerRecording[c]

\* C38 (single lobby subscription): a client never has two presence
\* subscriptions that are not removed, and after disconnect() none of its
\* subscriptions is left.
SingleSubscription ==
    /\ [](\A c \in Peers : \A i, j \in ChanIds :
            (/\ chans[i].owner = c /\ chans[i].st # "removed"
             /\ chans[j].owner = c /\ chans[j].st # "removed") => i = j)
    /\ [][\A c \in Peers :
            Disconnect(c) => \A ch \in ChanIds :
                chans[ch].owner = c => chans'[ch].st = "removed"]_vars

\* C39 (history kept): while the mode stays connected the history only grows
\* or is edited in place: every message it holds is still there, at its place,
\* after the step.
HistoryKept ==
    [][\A c \in Peers :
          (status[c] = "CONNECTED" /\ status'[c] = "CONNECTED")
          => /\ Len(messages'[c]) >= Len(messages[c])
             /\ \A i \in 1..Len(messages[c]) : messages'[c][i].id = messages[c][i].id]_vars

\* C40 (remote edits confined): an inbound 'edit_message' payload, with or
\* without a message id, leaves the text and the isEdited flag of every message
\* sent by 'me' or by 'system' as they were.
RemoteEditConfined ==
    [][\A c \in Peers : \A k \in ConnIds : \A d \in EditPayloads :
          HandleIncomingData(k, c, d)
          => /\ Len(messages'[c]) = Len(messages[c])
             /\ \A i \in 1..Len(messages[c]) :
                   messages[c][i].sender \in {"me", "system"}
                   => /\ messages'[c][i].text = messages[c][i].text
                      /\ messages'[c][i].isEdited = messages[c][i].isEdited]_vars

\* an inbound edit has just been handled: the stranger's message is edited, A's
\* own message and the greeting are as they were
OwnMessageUntouched ==
    /\ routed["A"] = "edit_message"
    /\ Len(messages["A"]) = 3
    /\ messages["A"][1] = INITIAL_GREETING
    /\ \E i, j \in 2..3 :
          /\ messages["A"][i].sender = "me"
          /\ messages["A"][i].text = "t1"
          /\ ~messages["A"][i].isEdited
          /\ messages["A"][j].sender = "stranger"
          /\ messages["A"][j].isEdited

====
